---- MODULE Spec2Model ----
(***************************************************************************)
(* Data aggregation pipeline of the sales-prospecting backend:             *)
(* cache_service.py, clearbit_service.py, hunter_service.py,               *)
(* linkedin_scraper.py and data_collector.py.                              *)
(*                                                                         *)
(* Python values are tagged records (field k is the type tag), so that     *)
(* None, "", 0, {} and [] stay distinct and truthiness is what Python      *)
(* computes.  A str is a sequence of symbols; cased letters are single     *)
(* characters so that lower() and strip() are computed symbol by symbol.   *)
(***************************************************************************)
EXTENDS Integers, Sequences, FiniteSets, TLC

VARIABLES
    clearbit_api_key,   \* settings.clearbit_api_key (ClearbitService.api_key)
    hunter_api_key,     \* settings.hunter_api_key (HunterService.api_key)
    redis_up,           \* whether the Redis backend answers
    cache,              \* Redis content: key -> [data, ttl]
    pc,                 \* "idle" | "done": position of the calling layer
    call,               \* the last entry point called, with its arguments
    ret,                \* its outcome: returned value or raised exception
    trace,              \* adapter calls, cache operations and HTTP requests it made
    hist                \* what each source answered, and the contact lists it handled

vars == <<clearbit_api_key, hunter_api_key, redis_up, cache, pc, call, ret, trace, hist>>

----------------------------------------------------------------------------
(* Python values *)

None == [k |-> "None"]
PyStr(s) == [k |-> "str", v |-> s]
PyInt(n) == [k |-> "int", v |-> n]
PyFloat(n) == [k |-> "float", v |-> n]
PyBool(b) == [k |-> "bool", v |-> b]
PyDict(f) == [k |-> "dict", v |-> f]
PyList(s) == [k |-> "list", v |-> s]
PyTuple(s) == [k |-> "tuple", v |-> s]
PySet(S) == [k |-> "set", v |-> S]

EmptyDict == PyDict(<<>>)
EmptyList == PyList(<<>>)
EmptyStr == PyStr(<<>>)

\* bool(x)
Truthy(x) ==
    CASE x.k = "None" -> FALSE
      [] x.k = "str"  -> Len(x.v) > 0
      [] x.k = "int"  -> x.v # 0
      [] x.k = "float" -> x.v # 0
      [] x.k = "bool" -> x.v
      [] x.k = "dict" -> DOMAIN x.v # {}
      [] x.k = "list" -> Len(x.v) > 0

\* a or b
PyOr(a, b) == IF Truthy(a) THEN a ELSE b

\* d.get(key, default) for a dict d
GetD(d, key, default) == IF key \in DOMAIN d.v THEN d.v[key] ELSE default

\* d.get(key)
Get(d, key) == GetD(d, key, None)

\* key in d
HasKey(d, key) == key \in DOMAIN d.v

\* d.update(e)
Update(d, e) ==
    PyDict([key \in DOMAIN d.v \cup DOMAIN e.v |->
                IF key \in DOMAIN e.v THEN e.v[key] ELSE d.v[key]])

\* d[key] = val
SetItem(d, key, val) == Update(d, PyDict(key :> val))

\* results of operations that may raise
Ok(v) == [ok |-> TRUE, v |-> v]
Raise(e) == [ok |-> FALSE, exc |-> e]

----------------------------------------------------------------------------
(* str methods *)

LowerChar(c) ==
    CASE c = "A" -> "a" [] c = "B" -> "b" [] c = "C" -> "c" [] c = "D" -> "d"
      [] c = "E" -> "e" [] c = "F" -> "f" [] c = "G" -> "g" [] c = "H" -> "h"
      [] c = "I" -> "i" [] c = "J" -> "j" [] c = "K" -> "k" [] c = "L" -> "l"
      [] c = "M" -> "m" [] c = "N" -> "n" [] c = "O" -> "o" [] c = "P" -> "p"
      [] c = "Q" -> "q" [] c = "R" -> "r" [] c = "S" -> "s" [] c = "T" -> "t"
      [] c = "U" -> "u" [] c = "V" -> "v" [] c = "W" -> "w" [] c = "X" -> "x"
      [] c = "Y" -> "y" [] c = "Z" -> "z"
      [] OTHER -> c

\* s.lower()
Lower(s) == [i \in 1..Len(s) |-> LowerChar(s[i])]

IsSpace(c) == c = " "

RECURSIVE LStrip(_)
LStrip(s) == IF s # <<>> /\ IsSpace(Head(s)) THEN LStrip(Tail(s)) ELSE s

RECURSIVE RStrip(_)
RStrip(s) ==
    IF s # <<>> /\ IsSpace(s[Len(s)]) THEN RStrip(SubSeq(s, 1, Len(s) - 1)) ELSE s

\* s.strip()
Strip(s) == RStrip(LStrip(s))

\* s.replace(old, new) for a one-character old
Replace(s, old, new) == [i \in 1..Len(s) |-> IF s[i] = old THEN new ELSE s[i]]

\* s.replace(old, "") for a one-character old
RECURSIVE Remove(_, _)
Remove(s, old) ==
    IF s = <<>> THEN <<>>
    ELSE IF Head(s) = old THEN Remove(Tail(s), old)
    ELSE <<Head(s)>> \o Remove(Tail(s), old)

\* f"{x}" : str(x) of a str or of None
Format(x) == IF x.k = "None" THEN <<"N", "o", "n", "e">> ELSE x.v

\* seq[:n] for n >= 0
Take(s, n) == SubSeq(s, 1, IF n < Len(s) THEN n ELSE Len(s))

----------------------------------------------------------------------------
(* Strings of the program *)

S_cache == <<"c", "a", "c", "h", "e">>
S_clearbit == <<"c", "l", "e", "a", "r", "b", "i", "t">>
S_hunter == <<"h", "u", "n", "t", "e", "r">>
S_linkedin == <<"l", "i", "n", "k", "e", "d", "i", "n">>
S_hunter_domain == <<"h", "u", "n", "t", "e", "r", "_", "d", "o", "m", "a", "i", "n">>
Colon == <<":">>

\* settings.cache_ttl
CacheTtl == 604800

\* time.time() / datetime.utcnow().isoformat(): one symbol for the clock's reading
Timestamp == PyStr(<<"<now>">>)

----------------------------------------------------------------------------
(* cache_service.py.  An operation takes the running state st = [cache, trace] *)
(* of the request and returns [st, val].                                      *)

Log(st, event) == [st EXCEPT !.trace = Append(@, event)]

\* CacheService._generate_key: f"cache:{namespace}:{identifier}"
GenerateKey(namespace, identifier) ==
    S_cache \o Colon \o namespace \o Colon \o identifier

\* what json.dumps accepts: None, str, int, float, bool, and dicts, lists and
\* tuples of those; a set raises TypeError
RECURSIVE JsonSerializable(_)
JsonSerializable(x) ==
    CASE x.k \in {"None", "str", "int", "float", "bool"} -> TRUE
      [] x.k \in {"list", "tuple"} -> \A i \in DOMAIN x.v : JsonSerializable(x.v[i])
      [] x.k = "dict" -> \A key \in DOMAIN x.v : JsonSerializable(x.v[key])
      [] OTHER -> FALSE

\* the value the JSON text of x stands for: a tuple is written as an array
RECURSIVE JsonValue(_)
JsonValue(x) ==
    CASE x.k \in {"list", "tuple"} -> PyList([i \in DOMAIN x.v |-> JsonValue(x.v[i])])
      [] x.k = "dict" -> PyDict([key \in DOMAIN x.v |-> JsonValue(x.v[key])])
      [] OTHER -> x

\* json.dumps / json.loads: the stored text is not the value
JsonDumps(x) == [k |-> "json", v |-> JsonValue(x)]
JsonLoads(j) == j.v

\* faulty variant: the stored text is handed back without json.loads
CacheGet_NoLoads(st, namespace, identifier) ==
    LET key == GenerateKey(namespace, identifier)
        st1 == Log(st, "cache.get")
    IN  IF redis_up /\ key \in DOMAIN st.cache
        THEN [st |-> st1, val |-> st.cache[key].data]
        ELSE [st |-> st1, val |-> None]

\* CacheService.get
CacheGet(st, namespace, identifier) ==
    LET key == GenerateKey(namespace, identifier)
        st1 == Log(st, "cache.get")
    IN  IF redis_up /\ key \in DOMAIN st.cache
        THEN [st |-> st1, val |-> JsonLoads(st.cache[key].data)]
        ELSE [st |-> st1, val |-> None]   \* miss, or the exception is swallowed

\* faulty variant: the fields of data are written into the entry already
\* held under the key, one by one, instead of replacing it
CacheSet_FieldByField(st, namespace, identifier, data, ttl) ==
    LET key == GenerateKey(namespace, identifier)
        ttl_seconds == IF Truthy(ttl) THEN ttl.v ELSE CacheTtl
        held == IF key \in DOMAIN st.cache /\ st.cache[key].data.v.k = "dict"
                        /\ data.k = "dict"
                THEN Update(st.cache[key].data.v, data) ELSE data
        st1 == Log(st, "cache.set")
    IN  IF redis_up /\ JsonSerializable(data)
        THEN [st |-> [st1 EXCEPT !.cache =
                        [x \in DOMAIN st.cache \cup {key} |->
                            IF x = key THEN [data |-> JsonDumps(held), ttl |-> ttl_seconds]
                            ELSE st.cache[x]]],
              val |-> TRUE]
        ELSE [st |-> st1, val |-> FALSE]

\* CacheService.set: ttl is an int or None
CacheSet(st, namespace, identifier, data, ttl) ==
    LET key == GenerateKey(namespace, identifier)
        ttl_seconds == IF Truthy(ttl) THEN ttl.v ELSE CacheTtl
        entry == [data |-> JsonDumps(data), ttl |-> ttl_seconds]
        st1 == Log(st, "cache.set")
    IN  IF redis_up /\ JsonSerializable(data)
        THEN [st |-> [st1 EXCEPT !.cache =
                        [x \in DOMAIN st.cache \cup {key} |->
                            IF x = key THEN entry ELSE st.cache[x]]],
              val |-> TRUE]
        ELSE [st |-> st1, val |-> FALSE]   \* TypeError or Redis error, swallowed

\* faulty variant: True is returned whether or not Redis answered
CacheDelete_AlwaysTrue(st, namespace, identifier) ==
    LET key == GenerateKey(namespace, identifier)
    IN  [st |-> [Log(st, "cache.delete") EXCEPT !.cache =
                    IF redis_up THEN [x \in DOMAIN st.cache \ {key} |-> st.cache[x]]
                    ELSE st.cache],
         val |-> TRUE]

\* CacheService.delete
CacheDelete(st, namespace, identifier) ==
    LET key == GenerateKey(namespace, identifier)
        st1 == Log(st, "cache.delete")
    IN  IF redis_up
        THEN [st |-> [st1 EXCEPT !.cache = [x \in DOMAIN st.cache \ {key} |-> st.cache[x]]],
              val |-> TRUE]
        ELSE [st |-> st1, val |-> FALSE]

\* CacheService.exists
CacheExists(st, namespace, identifier) ==
    [st |-> Log(st, "cache.exists"),
     val |-> redis_up /\ GenerateKey(namespace, identifier) \in DOMAIN st.cache]

\* CacheService.get_ttl; Redis answers -2 for a missing key and otherwise the
\* whole seconds that remain
CacheGetTtl(st, namespace, identifier, remaining) ==
    LET key == GenerateKey(namespace, identifier)
        ttl == IF key \in DOMAIN st.cache THEN remaining ELSE -2
    IN  [st |-> Log(st, "cache.get_ttl"),
         val |-> IF redis_up /\ ttl > 0 THEN PyInt(ttl) ELSE None]

\* key matches f"cache:{namespace}:*"
HasPrefix(s, prefix) == Len(s) >= Len(prefix) /\ SubSeq(s, 1, Len(prefix)) = prefix
InNamespace(key, namespace) == HasPrefix(key, S_cache \o Colon \o namespace \o Colon)

\* CacheService.invalidate_namespace
CacheInvalidateNamespace(st, namespace) ==
    LET keys == {key \in DOMAIN st.cache : InNamespace(key, namespace)}
        st1 == Log(st, "cache.invalidate_namespace")
    IN  IF redis_up
        THEN [st |-> [st1 EXCEPT !.cache = [x \in DOMAIN st.cache \ keys |-> st.cache[x]]],
              val |-> Cardinality(keys)]
        ELSE [st |-> st1, val |-> 0]

\* faulty variant: the fetched data is stored without the "is not None" test
GetOrSetAfterGet_StoresNull(got, namespace, identifier, fetch, ttl) ==
    IF got.val # None THEN got
    ELSE IF ~fetch.ok THEN [st |-> Log(got.st, "fetch_func"), val |-> None]
    ELSE [st |-> CacheSet(Log(got.st, "fetch_func"), namespace, identifier, fetch.v, ttl).st,
          val |-> fetch.v]

\* get_or_set after the cache lookup: fetch is what fetch_func() does,
\* Ok(data) or Raise(exc)
GetOrSetAfterGet(got, namespace, identifier, fetch, ttl) ==
    IF got.val # None THEN got
    ELSE IF ~fetch.ok THEN [st |-> Log(got.st, "fetch_func"), val |-> None]
    ELSE IF fetch.v # None
    THEN [st |-> CacheSet(Log(got.st, "fetch_func"), namespace, identifier, fetch.v, ttl).st,
          val |-> fetch.v]
    ELSE [st |-> Log(got.st, "fetch_func"), val |-> None]

\* CacheService.get_or_set
CacheGetOrSet(st, namespace, identifier, fetch, ttl) ==
    GetOrSetAfterGet(CacheGet(st, namespace, identifier), namespace, identifier, fetch, ttl)

----------------------------------------------------------------------------
(* HTTP responses as httpx delivers them *)

HttpStatus(status, body) == [kind |-> "status", status |-> status, body |-> body]
HttpTimeout == [kind |-> "timeout", status |-> 0, body |-> None]
HttpError == [kind |-> "error", status |-> 0, body |-> None]
\* a body that response.json() cannot decode
NotJson == [k |-> "notjson"]

----------------------------------------------------------------------------
(* clearbit_service.py *)

\* faulty variant: "is not None" instead of truthiness
ClearbitIsAvailable_NotNone == clearbit_api_key # None

\* ClearbitService.is_available
ClearbitIsAvailable == Truthy(clearbit_api_key)

\* faulty variant: the body is decoded whatever the status code
ClearbitMakeRequest_AnyStatus(st, resp) ==
    IF ~Truthy(clearbit_api_key) THEN [st |-> st, val |-> None]
    ELSE LET st1 == Log(st, "http.clearbit")
         IN  IF resp.kind = "status" /\ resp.body # NotJson
             THEN [st |-> st1, val |-> resp.body]
             ELSE [st |-> st1, val |-> None]

\* ClearbitService._make_request
ClearbitMakeRequest(st, resp) ==
    IF ~Truthy(clearbit_api_key) THEN [st |-> st, val |-> None]
    ELSE LET st1 == Log(st, "http.clearbit")
         IN  IF resp.kind = "status" /\ resp.status = 200 /\ resp.body # NotJson
             THEN [st |-> st1, val |-> resp.body]
             \* 404, 402, other status, timeout, undecodable body, error
             ELSE [st |-> st1, val |-> None]

\* enrich_company, "Cache the result"
ClearbitCacheResult(req, domain, use_cache) ==
    IF Truthy(req.val) /\ use_cache
    THEN [st |-> CacheSet(req.st, S_clearbit, Format(domain), req.val,
                          PyInt(CacheTtl)).st,
          val |-> req.val]
    ELSE req

\* enrich_company, after "Check cache first"
ClearbitAfterCache(got, domain, use_cache, resp) ==
    IF use_cache /\ Truthy(got.val) THEN got
    ELSE ClearbitCacheResult(ClearbitMakeRequest(got.st, resp), domain, use_cache)

\* ClearbitService.enrich_company
ClearbitEnrichCompany(st, domain, use_cache, resp) ==
    ClearbitAfterCache(
        IF use_cache
        THEN CacheGet(Log(st, "clearbit.enrich_company"), S_clearbit, Format(domain))
        ELSE [st |-> Log(st, "clearbit.enrich_company"), val |-> None],
        domain, use_cache, resp)

\* x.get(key, {}).get(sub) inside extract_company_info; raises when the
\* outer value is present but not a dict
Nested(d, key, sub) ==
    LET inner == GetD(d, key, EmptyDict)
    IN  IF inner.k = "dict" THEN Ok(Get(inner, sub)) ELSE Raise("AttributeError")

\* the dict extract_company_info returns, given its nested lookups
ExtractedInfo(d, parts) ==
    IF \E p \in DOMAIN parts : ~parts[p].ok THEN Raise("AttributeError")
    ELSE Ok(PyDict(
        [name |-> Get(d, "name"),
         domain |-> Get(d, "domain"),
         description |-> Get(d, "description"),
         industry |-> parts.industry.v,
         sector |-> parts.sector.v,
         employee_count |-> parts.employee_count.v,
         employee_range |-> parts.employee_range.v,
         founded_year |-> Get(d, "foundedYear"),
         location |-> Get(d, "location"),
         city |-> parts.city.v,
         state |-> parts.state.v,
         country |-> parts.country.v,
         logo_url |-> Get(d, "logo"),
         website |-> Get(d, "url"),
         linkedin_url |-> parts.linkedin_url.v,
         twitter_handle |-> parts.twitter_handle.v,
         facebook_handle |-> parts.facebook_handle.v,
         tech_stack |-> GetD(d, "tech", EmptyList),
         tags |-> GetD(d, "tags", EmptyList),
         type |-> Get(d, "type"),
         phone |-> Get(d, "phone"),
         email_provider |-> Get(d, "emailProvider"),
         funding |-> PyDict([total |-> parts.total.v,
                             annual_revenue |-> parts.annual_revenue.v])]))

\* ClearbitService.extract_company_info
ExtractCompanyInfo(clearbit_data) ==
    IF ~Truthy(clearbit_data) THEN Ok(EmptyDict)
    ELSE ExtractedInfo(clearbit_data,
            [industry |-> Nested(clearbit_data, "category", "industry"),
             sector |-> Nested(clearbit_data, "category", "sector"),
             employee_count |-> Nested(clearbit_data, "metrics", "employees"),
             employee_range |-> Nested(clearbit_data, "metrics", "employeesRange"),
             city |-> Nested(clearbit_data, "geo", "city"),
             state |-> Nested(clearbit_data, "geo", "state"),
             country |-> Nested(clearbit_data, "geo", "country"),
             linkedin_url |-> Nested(clearbit_data, "linkedin", "handle"),
             twitter_handle |-> Nested(clearbit_data, "twitter", "handle"),
             facebook_handle |-> Nested(clearbit_data, "facebook", "handle"),
             total |-> Nested(clearbit_data, "metrics", "raised"),
             annual_revenue |-> Nested(clearbit_data, "metrics", "annualRevenue")])

----------------------------------------------------------------------------
(* hunter_service.py *)

\* HunterService.is_available
HunterIsAvailable == Truthy(hunter_api_key)

\* HunterService._make_request
HunterMakeRequest(st, resp) ==
    IF ~Truthy(hunter_api_key) THEN [st |-> st, val |-> None]
    ELSE LET st1 == Log(st, "http.hunter")
         IN  IF resp.kind = "status" /\ resp.status = 200
             THEN [st |-> st1, val |-> resp.body]
             ELSE [st |-> st1, val |-> None]   \* 404, 429, other status, timeout, error

\* S_hunter_domain : f"hunter_domain:{domain}"
HunterDomainKey(domain) == S_hunter_domain \o Colon \o Format(domain)

\* domain_search, from "if response and 'data' in response" on
HunterCacheResult(req, domain, use_cache) ==
    IF Truthy(req.val) /\ HasKey(req.val, "data")
    THEN IF use_cache
         THEN [st |-> CacheSet(req.st, S_hunter, HunterDomainKey(domain),
                               req.val.v["data"], PyInt(CacheTtl)).st,
               val |-> req.val.v["data"]]
         ELSE [st |-> req.st, val |-> req.val.v["data"]]
    ELSE [st |-> req.st, val |-> None]

\* domain_search, after "Check cache first"
HunterAfterCache(got, domain, use_cache, resp) ==
    IF use_cache /\ Truthy(got.val) THEN got
    ELSE HunterCacheResult(HunterMakeRequest(got.st, resp), domain, use_cache)

\* HunterService.domain_search
HunterDomainSearch(st, domain, use_cache, resp) ==
    HunterAfterCache(
        IF use_cache
        THEN CacheGet(Log(st, "hunter.domain_search"), S_hunter, HunterDomainKey(domain))
        ELSE [st |-> Log(st, "hunter.domain_search"), val |-> None],
        domain, use_cache, resp)

\* the dict get_contacts builds for one entry of data["emails"]
HunterContact(email) ==
    PyDict([email |-> Get(email, "value"),
            first_name |-> Get(email, "first_name"),
            last_name |-> Get(email, "last_name"),
            position |-> Get(email, "position"),
            department |-> Get(email, "department"),
            seniority |-> Get(email, "seniority"),
            confidence |-> Get(email, "confidence"),
            linkedin |-> Get(email, "linkedin"),
            twitter |-> Get(email, "twitter"),
            phone_number |-> Get(email, "phone_number")])

\* get_contacts, from "if data and 'emails' in data" on;
\* data["emails"][:limit] raises when emails is null
HunterContactsOf(ds, limit) ==
    IF Truthy(ds.val) /\ HasKey(ds.val, "emails")
    THEN IF ds.val.v["emails"].k # "list"
         THEN [st |-> ds.st, res |-> Raise("TypeError")]
         ELSE [st |-> ds.st,
               res |-> Ok(PyList([i \in 1..Len(Take(ds.val.v["emails"].v, limit)) |->
                                    HunterContact(ds.val.v["emails"].v[i])]))]
    ELSE [st |-> ds.st, res |-> Ok(EmptyList)]

\* HunterService.get_contacts: domain_search is called with its default
\* use_cache=True
HunterGetContacts(st, domain, limit, resp) ==
    HunterContactsOf(
        HunterDomainSearch(Log(st, "hunter.get_contacts"), domain, TRUE, resp), limit)

\* HunterService.get_email_pattern: domain_search is called with its default
\* use_cache=True
PatternOf(ds) ==
    [st |-> ds.st, val |-> IF Truthy(ds.val) THEN Get(ds.val, "pattern") ELSE None]
HunterGetEmailPattern(st, domain, resp) ==
    PatternOf(HunterDomainSearch(Log(st, "hunter.get_email_pattern"), domain, TRUE, resp))

\* s.replace(old, new) for a placeholder old, which is one symbol of a pattern
RECURSIVE Substitute(_, _, _)
Substitute(s, old, new) ==
    IF s = <<>> THEN <<>>
    ELSE (IF Head(s) = old THEN new ELSE <<Head(s)>>) \o Substitute(Tail(s), old, new)

\* first_name[0].lower() if first_name else ""
Initial(name) == IF name = <<>> THEN <<>> ELSE Lower(<<Head(name)>>)

\* generate_email, "Parse pattern and generate email"
FillPattern(pattern, first_name, last_name) ==
    Substitute(
        Substitute(
            Substitute(
                Substitute(Lower(pattern), "{first}", Lower(first_name)),
                "{last}", Lower(last_name)),
            "{f}", Initial(first_name)),
        "{l}", Initial(last_name))

\* generate_email after get_email_pattern; a pattern that is no str has no lower()
GenerateEmailFrom(p, first_name, last_name) ==
    [st |-> p.st,
     res |-> IF ~Truthy(p.val) THEN Ok(None)
             ELSE IF p.val.k # "str" THEN Raise("AttributeError")
             ELSE Ok(PyStr(FillPattern(p.val.v, first_name.v, last_name.v)))]

\* HunterService.generate_email
HunterGenerateEmail(st, first_name, last_name, domain, resp) ==
    GenerateEmailFrom(
        HunterGetEmailPattern(Log(st, "hunter.generate_email"), domain, resp),
        first_name, last_name)

----------------------------------------------------------------------------
(* linkedin_scraper.py: MockLinkedInScraper, the scraper data_collector.py *)
(* wires in.  Fixed texts are single symbols.                              *)

\* MockLinkedInScraper.search_company
MockSearchCompany(company_name) ==
    LET n == company_name.v
    IN  PyDict(
        [name |-> company_name,
         linkedin_url |-> PyStr(<<"https://www.linkedin.com/company/">>
                                \o Replace(Lower(n), " ", "-") \o <<"/">>),
         description |-> PyStr(n \o <<" is a leading company in its industry.">>),
         industry |-> PyStr(<<"Technology">>),
         company_size |-> PyStr(<<"50-200 employees">>),
         headquarters |-> PyStr(<<"San Francisco, CA">>),
         founded |-> PyStr(<<"2020">>),
         website |-> PyStr(<<"https://www.">> \o Remove(Lower(n), " ") \o <<".com">>),
         employee_count |-> PyInt(150),
         scraped_at |-> Timestamp])

\* the titles list of MockLinkedInScraper.scrape_company_employees
Titles ==
    << <<"Chief Executive Officer">>, <<"Chief Technology Officer">>,
       <<"VP of Engineering">>, <<"VP of Sales">>, <<"Head of Marketing">>,
       <<"Engineering Manager">>, <<"Senior Software Engineer">>,
       <<"Product Manager">>, <<"Sales Director">>, <<"Customer Success Manager">> >>

\* f"{i}" for the positions the mock numbers
Decimal(i) == IF i < 10 THEN <<ToString(i)>> ELSE <<"1", ToString(i - 10)>>

\* MockLinkedInScraper.scrape_company_employees; i below is the code's i+1
MockScrapeCompanyEmployees(company_name, limit) ==
    LET n == IF limit < Len(Titles) THEN limit ELSE Len(Titles)
    IN  PyList([i \in 1..n |->
            PyDict(
            [name |-> PyStr(<<"Person ">> \o Decimal(i)),
             title |-> PyStr(Titles[i]),
             location |-> PyStr(<<"San Francisco Bay Area">>),
             profile_url |-> PyStr(<<"https://www.linkedin.com/in/person-">>
                                   \o Decimal(i) \o <<"/">>),
             company |-> company_name,
             is_decision_maker |-> PyBool(i - 1 < 5),
             seniority_level |-> PyStr(IF i - 1 < 2 THEN <<"C-Level">>
                                       ELSE IF i - 1 < 5 THEN <<"VP">>
                                       ELSE <<"Manager">>),
             scraped_at |-> Timestamp])])

\* What self.linkedin answers.  stub.kind = "mock": the wired-in mock runs;
\* otherwise the adapter behind the same interface answers stub.res (a payload,
\* None, or an exception), as LinkedInScraper or a test double would.
UseMock == [kind |-> "mock", res |-> Ok(None)]
Stub(res) == [kind |-> "stub", res |-> res]

\* self.linkedin.search_company(company_name, use_cache)
LinkedInSearchCompany(st, company_name, use_cache, stub) ==
    [st |-> Log(st, "linkedin.search_company"),
     res |-> IF stub.kind = "mock" THEN Ok(MockSearchCompany(company_name))
             ELSE stub.res]

\* self.linkedin.scrape_company_employees(company_name, limit, use_cache)
LinkedInScrapeCompanyEmployees(st, company_name, limit, use_cache, stub) ==
    [st |-> Log(st, "linkedin.scrape_company_employees"),
     res |-> IF stub.kind = "mock" THEN Ok(MockScrapeCompanyEmployees(company_name, limit))
             ELSE stub.res]

----------------------------------------------------------------------------
(* linkedin_scraper.py: LinkedInScraper, the Playwright scraper.  nav is what *)
(* page.goto does: it returns ("ok", or "blocked" when the site answers with  *)
(* a refusal page), or raises ("timeout", "error").                           *)

NavReturns(nav) == nav \in {"ok", "blocked"}

\* f"linkedin_company:{company_name}"
LinkedInCompanyKey(company_name) == <<"linkedin_company">> \o Colon \o Format(company_name)
\* f"linkedin_employees:{company_name}:{limit}"
LinkedInEmployeesKey(company_name, limit) ==
    <<"linkedin_employees">> \o Colon \o Format(company_name) \o Colon \o Decimal(limit)

\* company_data of LinkedInScraper.search_company
PlaceholderCompany(company_name) ==
    PyDict([name |-> company_name,
            search_url |-> PyStr(<<"https://www.linkedin.com/search/results/companies/?keywords=">>
                                 \o Format(company_name)),
            scraped_at |-> Timestamp,
            note |-> PyStr(<<"LinkedIn scraping requires authentication. This is a placeholder.">>)])

\* employees of LinkedInScraper.scrape_company_employees
PlaceholderEmployees(company_name, limit) ==
    PyList([i \in 1..(IF limit < 5 THEN limit ELSE 5) |->
        PyDict([name |-> None, title |-> None, location |-> None, profile_url |-> None,
                company |-> company_name, scraped_at |-> Timestamp])])

\* await self.page.goto(...); await self._rate_limit_delay()
ScraperNavigate(st, nav) ==
    IF NavReturns(nav)
    THEN [st |-> Log(Log(st, "linkedin.goto"), "linkedin.delay"), ok |-> TRUE]
    ELSE [st |-> Log(st, "linkedin.goto"), ok |-> FALSE]   \* goto raised

\* the rest of the try block, or the except clause answering failed
ScraperStore(n, key, data, use_cache, failed) ==
    IF ~n.ok THEN [st |-> n.st, val |-> failed]
    ELSE IF use_cache
    THEN [st |-> CacheSet(n.st, S_linkedin, key, data, PyInt(CacheTtl)).st, val |-> data]
    ELSE [st |-> n.st, val |-> data]

\* after "Check cache"
ScraperAfterCache(got, key, data, use_cache, nav, failed) ==
    IF use_cache /\ Truthy(got.val) THEN got
    ELSE ScraperStore(ScraperNavigate(got.st, nav), key, data, use_cache, failed)

ScraperCheckCache(st, key, use_cache) ==
    IF use_cache THEN CacheGet(st, S_linkedin, key) ELSE [st |-> st, val |-> None]

\* LinkedInScraper.search_company
ScraperSearchCompany(st, company_name, use_cache, nav) ==
    ScraperAfterCache(
        ScraperCheckCache(Log(st, "linkedin.search_company"),
                          LinkedInCompanyKey(company_name), use_cache),
        LinkedInCompanyKey(company_name), PlaceholderCompany(company_name),
        use_cache, nav, None)

\* LinkedInScraper.scrape_company_employees
ScraperScrapeCompanyEmployees(st, company_name, limit, use_cache, nav) ==
    ScraperAfterCache(
        ScraperCheckCache(Log(st, "linkedin.scrape_company_employees"),
                          LinkedInEmployeesKey(company_name, limit), use_cache),
        LinkedInEmployeesKey(company_name, limit), PlaceholderEmployees(company_name, limit),
        use_cache, nav, EmptyList)

----------------------------------------------------------------------------
(* data_collector.py.  Besides cache and trace, the running state st carries *)
(* what each source answered (src) and the contact lists before and after    *)
(* deduplication (contacts, unique).                                         *)

NotCalled == [called |-> FALSE, out |-> Ok(None)]
Answered(out) == [called |-> TRUE, out |-> out]
Note(st, source, out) == [st EXCEPT !.src[source] = Answered(out)]

NoExc == "none"

\* faulty variant: the handler re-raises
ExceptException_Reraise(exc) == exc

\* except Exception as e: print(...)  -- the exception ends here
ExceptException(exc) == NoExc

\* faulty variant: only None counts as missing
InvalidInput_NoneOnly(company_name, domain) == company_name = None /\ domain = None

\* if not company_name and not domain
InvalidInput(company_name, domain) == ~Truthy(company_name) /\ ~Truthy(domain)

\* the result dict collect_company_data starts from
InitialResult(company_name, domain) ==
    PyDict([collected_at |-> Timestamp,
            company_name |-> company_name,
            domain |-> domain,
            linkedin_data |-> None,
            clearbit_data |-> None,
            hunter_data |-> None,
            aggregated_data |-> EmptyDict])

\* A step takes and returns s = [st, result, exc]; an exception that left an
\* earlier step (exc # NoExc) is on its way out of the function.

\* result["linkedin_data"] = linkedin_data, or the except clause
LinkedInStore(s, c) ==
    IF c.res.ok
    THEN [st |-> Note(c.st, "linkedin", c.res),
          result |-> SetItem(s.result, "linkedin_data", c.res.v),
          exc |-> NoExc]
    ELSE [st |-> Note(c.st, "linkedin", c.res),
          result |-> s.result,
          exc |-> ExceptException(c.res.exc)]

\* collect_company_data, "Collect from LinkedIn"
LinkedInStep(s, company_name, use_cache, stub) ==
    IF s.exc # NoExc \/ ~Truthy(company_name) THEN s
    ELSE LinkedInStore(s, LinkedInSearchCompany(s.st, company_name, use_cache, stub))

\* result["aggregated_data"].update(extract_company_info(...)), or the except clause
ClearbitUpdate(s, info) ==
    IF info.ok
    THEN [s EXCEPT !.result = SetItem(s.result, "aggregated_data",
                                 Update(Get(s.result, "aggregated_data"), info.v))]
    ELSE [s EXCEPT !.exc = ExceptException(info.exc)]

\* result["clearbit_data"] = clearbit_data; if clearbit_data: ...
ClearbitStore(s, c) ==
    IF ~Truthy(c.val)
    THEN [st |-> Note(c.st, "clearbit", Ok(c.val)),
          result |-> SetItem(s.result, "clearbit_data", c.val),
          exc |-> NoExc]
    ELSE ClearbitUpdate([st |-> Note(c.st, "clearbit", Ok(c.val)),
                         result |-> SetItem(s.result, "clearbit_data", c.val),
                         exc |-> NoExc],
                        ExtractCompanyInfo(c.val))

\* collect_company_data, "Collect from Clearbit"
ClearbitStep(s, domain, use_cache, resp) ==
    IF s.exc # NoExc \/ ~(Truthy(domain) /\ ClearbitIsAvailable) THEN s
    ELSE ClearbitStore(s, ClearbitEnrichCompany(s.st, domain, use_cache, resp))

\* result["hunter_data"] = hunter_data; if hunter_data: ...
HunterStore(s, c) ==
    IF ~Truthy(c.val)
    THEN [st |-> Note(c.st, "hunter", Ok(c.val)),
          result |-> SetItem(s.result, "hunter_data", c.val),
          exc |-> NoExc]
    ELSE [st |-> Note(c.st, "hunter", Ok(c.val)),
          result |-> SetItem(SetItem(s.result, "hunter_data", c.val), "aggregated_data",
                SetItem(SetItem(Get(s.result, "aggregated_data"),
                                "email_pattern", Get(c.val, "pattern")),
                        "total_emails_found", GetD(c.val, "total", PyInt(0)))),
          exc |-> NoExc]

\* collect_company_data, "Collect from Hunter.io"
HunterStep(s, domain, use_cache, resp) ==
    IF s.exc # NoExc \/ ~(Truthy(domain) /\ HunterIsAvailable) THEN s
    ELSE HunterStore(s, HunterDomainSearch(s.st, domain, use_cache, resp))

\* faulty variant: the scraped value never fills in
MergeField_NoFill(merged, linkedin, f) == Get(merged, f)

\* merged.get(f) or linkedin.get(f)
MergeField(merged, linkedin, f) == PyOr(Get(merged, f), Get(linkedin, f))

\* faulty variant: sources listed in precedence order
SourcesUsed_ByPrecedence(result) ==
    PyList((IF Truthy(Get(result, "clearbit_data")) THEN <<PyStr(S_clearbit)>> ELSE <<>>)
        \o (IF Truthy(Get(result, "linkedin_data")) THEN <<PyStr(S_linkedin)>> ELSE <<>>)
        \o (IF Truthy(Get(result, "hunter_data")) THEN <<PyStr(S_hunter)>> ELSE <<>>))

\* _merge_company_data, "Add metadata"
SourcesUsed(result) ==
    PyList((IF Truthy(Get(result, "linkedin_data")) THEN <<PyStr(S_linkedin)>> ELSE <<>>)
        \o (IF Truthy(Get(result, "clearbit_data")) THEN <<PyStr(S_clearbit)>> ELSE <<>>)
        \o (IF Truthy(Get(result, "hunter_data")) THEN <<PyStr(S_hunter)>> ELSE <<>>))

\* DataCollector._merge_company_data
MergeCompanyData(result) ==
    LET merged == GetD(result, "aggregated_data", EmptyDict)
        linkedin == Get(result, "linkedin_data")
        merged1 ==
            IF Truthy(linkedin)
            THEN Update(merged, PyDict(
                    [name |-> MergeField(merged, linkedin, "name"),
                     description |-> MergeField(merged, linkedin, "description"),
                     industry |-> MergeField(merged, linkedin, "industry"),
                     employee_count |-> MergeField(merged, linkedin, "employee_count"),
                     website |-> MergeField(merged, linkedin, "website"),
                     linkedin_url |-> Get(linkedin, "linkedin_url")]))
            ELSE merged
    IN  SetItem(merged1, "sources_used", SourcesUsed(result))

\* collect_company_data, "Merge data intelligently" and return
MergeStep(s) ==
    IF s.exc # NoExc THEN [st |-> s.st, res |-> Raise(s.exc)]
    ELSE [st |-> s.st,
          res |-> Ok(SetItem(s.result, "aggregated_data", MergeCompanyData(s.result)))]

\* DataCollector.collect_company_data
CollectCompanyData(st, company_name, domain, use_cache, stub, cbResp, huResp) ==
    IF InvalidInput(company_name, domain)
    THEN [st |-> st, res |-> Raise("ValueError")]
    ELSE MergeStep(
            HunterStep(
                ClearbitStep(
                    LinkedInStep([st |-> st,
                                  result |-> InitialResult(company_name, domain),
                                  exc |-> NoExc],
                                 company_name, use_cache, stub),
                    domain, use_cache, cbResp),
                domain, use_cache, huResp))

\* faulty variant: emails compared as written
EmailKey_NoFold(contact) ==
    LET e == GetD(contact, "email", EmptyStr)
    IN  IF e.k = "str" THEN Ok(e.v) ELSE Raise("AttributeError")

\* contact.get("email", "").lower(); raises when the value is not a str
EmailKey(contact) ==
    LET e == GetD(contact, "email", EmptyStr)
    IN  IF e.k = "str" THEN Ok(Lower(e.v)) ELSE Raise("AttributeError")

\* f"{contact.get('first_name', '')} {contact.get('last_name', '')}".lower().strip()
NameKey(contact) ==
    Strip(Lower(Format(GetD(contact, "first_name", EmptyStr)) \o <<" ">>
                \o Format(GetD(contact, "last_name", EmptyStr))))

\* the loop of _deduplicate_contacts from position i on; email and name are
\* the keys of contacts[i]
RECURSIVE DedupFrom(_, _, _, _, _)
DedupBody(contacts, i, seen_emails, seen_names, unique_contacts, email, name) ==
    IF ~email.ok THEN Raise(email.exc)
    ELSE IF email.v # <<>> /\ email.v \notin seen_emails
    THEN DedupFrom(contacts, i + 1, seen_emails \cup {email.v}, seen_names,
                   Append(unique_contacts, contacts[i]))
    ELSE IF email.v = <<>> /\ name # <<>> /\ name \notin seen_names
    THEN DedupFrom(contacts, i + 1, seen_emails, seen_names \cup {name},
                   Append(unique_contacts, contacts[i]))
    ELSE DedupFrom(contacts, i + 1, seen_emails, seen_names, unique_contacts)

DedupFrom(contacts, i, seen_emails, seen_names, unique_contacts) ==
    IF i > Len(contacts) THEN Ok(unique_contacts)
    ELSE DedupBody(contacts, i, seen_emails, seen_names, unique_contacts,
                   EmailKey(contacts[i]), NameKey(contacts[i]))

\* DataCollector._deduplicate_contacts
DeduplicateContacts(contacts) == DedupFrom(contacts, 1, {}, {}, <<>>)

\* contacts.extend(x) inside try/except: s = [st, contacts, exc]
Extend(s, c, source) ==
    IF ~c.res.ok
    THEN [st |-> Note(c.st, source, c.res), contacts |-> s.contacts,
          exc |-> ExceptException(c.res.exc)]
    ELSE IF c.res.v.k # "list"
    THEN [st |-> Note(c.st, source, c.res), contacts |-> s.contacts,
          exc |-> ExceptException("TypeError")]
    ELSE [st |-> Note(c.st, source, c.res), contacts |-> s.contacts \o c.res.v.v,
          exc |-> NoExc]

\* collect_contacts, "Get contacts from LinkedIn"
LinkedInContactsStep(s, company_name, limit, use_cache, stub) ==
    Extend(s, LinkedInScrapeCompanyEmployees(s.st, company_name, limit, use_cache, stub),
           "employees")

\* collect_contacts, "Get contacts from Hunter.io"
HunterContactsStep(s, domain, limit, resp) ==
    IF s.exc # NoExc \/ ~HunterIsAvailable THEN s
    ELSE Extend(s, HunterGetContacts(s.st, domain, limit, resp), "hunter_contacts")

\* return contacts[:limit], or the exception of _deduplicate_contacts
Truncate(s, d, limit) ==
    IF ~d.ok THEN [st |-> [s.st EXCEPT !.contacts = s.contacts], res |-> Raise(d.exc)]
    ELSE [st |-> [s.st EXCEPT !.contacts = s.contacts, !.unique = d.v],
          res |-> Ok(PyList(Take(d.v, limit)))]

\* faulty variant: the concatenation is cut to limit before deduplication
DedupStep_TruncateFirst(s, limit) ==
    IF s.exc # NoExc THEN [st |-> s.st, res |-> Raise(s.exc)]
    ELSE Truncate(s, DeduplicateContacts(Take(s.contacts, limit)), limit)

\* collect_contacts, "Deduplicate and enrich" and return
DedupStep(s, limit) ==
    IF s.exc # NoExc THEN [st |-> s.st, res |-> Raise(s.exc)]
    ELSE Truncate(s, DeduplicateContacts(s.contacts), limit)

\* DataCollector.collect_contacts
CollectContacts(st, company_name, domain, limit, use_cache, stub, huResp) ==
    DedupStep(
        HunterContactsStep(
            LinkedInContactsStep([st |-> st, contacts |-> <<>>, exc |-> NoExc],
                                 company_name, limit, use_cache, stub),
            domain, limit, huResp),
        limit)

\* faulty variant: the two middle buckets carry each other's points
SizePoints_Swapped(n) ==
    IF 50 <= n /\ n <= 500 THEN 15
    ELSE IF 500 <= n /\ n <= 1000 THEN 20
    ELSE IF n < 50 THEN 10
    ELSE 5

\* the size component of calculate_lead_score for a truthy employee_count
SizePoints(n) ==
    IF 50 <= n /\ n <= 500 THEN 20
    ELSE IF 500 <= n /\ n <= 1000 THEN 15
    ELSE IF n < 50 THEN 10
    ELSE 5

RequiredFields == {"name", "domain", "industry", "employee_count", "description"}

Min(a, b) == IF a < b THEN a ELSE b

\* DataCollector.calculate_lead_score.  The score is a float whose value is
\* integral for every input (k/5*30 is exact for k in 0..5).
CalculateLeadScore(company_data) ==
    LET complete_fields == Cardinality({f \in RequiredFields : Truthy(Get(company_data, f))})
        employee_count == Get(company_data, "employee_count")
        funding == GetD(company_data, "funding", EmptyDict)
        tech_stack == GetD(company_data, "tech_stack", EmptyList)
        total == GetD(company_data, "total_emails_found", PyInt(0))
    IN  IF Truthy(employee_count) /\ employee_count.k # "int" THEN Raise("TypeError")
        ELSE IF funding.k # "dict" THEN Raise("AttributeError")
        ELSE IF tech_stack.k \notin {"list", "str", "dict"} THEN Raise("TypeError")
        ELSE IF total.k # "int" THEN Raise("TypeError")
        ELSE Ok(Min(100,
               (complete_fields * 30) \div 5
             + (IF Truthy(employee_count) THEN SizePoints(employee_count.v) ELSE 0)
             + (IF Truthy(Get(funding, "total")) THEN 20
                ELSE IF Truthy(Get(funding, "annual_revenue")) THEN 15 ELSE 0)
             + (IF Truthy(tech_stack) THEN Min(3 * (IF tech_stack.k = "dict"
                                                     THEN Cardinality(DOMAIN tech_stack.v)
                                                     ELSE Len(tech_stack.v)), 15)
                ELSE 0)
             + (IF Truthy(Get(company_data, "email_pattern")) THEN 10 ELSE 0)
             + (IF total.v > 0 THEN 5 ELSE 0)))

\* limit=20 in collect_full_profile
ProfileLimit == 20

\* collect_full_profile, "Assemble full profile"
AssembleProfile(cd, cc, lead_score, company_name, domain) ==
    IF ~lead_score.ok THEN [st |-> cc.st, res |-> Raise(lead_score.exc)]
    ELSE [st |-> cc.st,
          res |-> Ok(PyDict(
            [company_name |-> company_name,
             domain |-> domain,
             lead_score |-> PyFloat(lead_score.v),
             data |-> GetD(cd.res.v, "aggregated_data", EmptyDict),
             contacts |-> cc.res.v,
             raw_data |-> PyDict(
                [linkedin |-> Get(cd.res.v, "linkedin_data"),
                 clearbit |-> Get(cd.res.v, "clearbit_data"),
                 hunter |-> Get(cd.res.v, "hunter_data")]),
             collected_at |-> Get(cd.res.v, "collected_at"),
             sources_available |-> PyDict(
                [linkedin |-> PyBool(TRUE),
                 clearbit |-> PyBool(ClearbitIsAvailable),
                 hunter |-> PyBool(HunterIsAvailable)])]))]

\* collect_full_profile, "Calculate lead score"
ScoreProfile(cd, cc, company_name, domain) ==
    IF ~cc.res.ok THEN cc
    ELSE AssembleProfile(cd, cc,
            CalculateLeadScore(GetD(cd.res.v, "aggregated_data", EmptyDict)),
            company_name, domain)

\* collect_full_profile, "Collect contacts if requested"
ContactsOfProfile(cd, company_name, domain, include_contacts, use_cache, stub2, huResp2) ==
    IF ~cd.res.ok THEN cd
    ELSE ScoreProfile(cd,
            IF include_contacts
            THEN CollectContacts(cd.st, company_name, domain, ProfileLimit,
                                 use_cache, stub2, huResp2)
            ELSE [st |-> cd.st, res |-> Ok(EmptyList)],
            company_name, domain)

\* DataCollector.collect_full_profile
CollectFullProfile(st, company_name, domain, include_contacts, use_cache, stub, cbResp, huResp, stub2, huResp2) ==
    ContactsOfProfile(
        CollectCompanyData(st, company_name, domain, use_cache, stub, cbResp, huResp),
        company_name, domain, include_contacts, use_cache, stub2, huResp2)

----------------------------------------------------------------------------
(* The inputs: arguments, credentials and what the providers answer *)

\* largest limit argument tried
MaxLimit == 2
\* longest employee list a scraper double answers with
MaxContacts == 2

T(x) == PyStr(<<x>>)

Name_AbC == PyStr(<<"A", "b", " ", "C">>)
Domain_abco == PyStr(<<"a", "b", ".", "c", "o">>)

CompanyNameArgs == {None, EmptyStr, Name_AbC}
DomainArgs == {None, EmptyStr, Domain_abco}
ApiKeys == {None, EmptyStr, T("sk_live")}

\* Clearbit company objects
CbFull ==
    PyDict([name |-> T("Ab C Inc"), domain |-> Domain_abco,
            description |-> T("Payments for the web"),
            category |-> PyDict([industry |-> T("Fintech"), sector |-> T("Financials")]),
            metrics |-> PyDict([employees |-> PyInt(200), employeesRange |-> T("51-250"),
                                raised |-> PyInt(5000000), annualRevenue |-> None]),
            foundedYear |-> PyInt(2015), location |-> T("Austin, TX, USA"),
            geo |-> PyDict([city |-> T("Austin"), state |-> T("TX"), country |-> T("US")]),
            logo |-> T("https://logo.clearbit.com/ab.co"), url |-> T("https://ab.co"),
            linkedin |-> PyDict([handle |-> T("company/ab-c-inc")]),
            twitter |-> PyDict([handle |-> T("abc")]),
            facebook |-> PyDict([handle |-> None]),
            tech |-> PyList(<<T("react"), T("python")>>),
            tags |-> PyList(<<T("B2B")>>), type |-> T("private"),
            phone |-> None, emailProvider |-> PyBool(FALSE)])

\* a company object whose descriptive fields are null
CbGaps ==
    PyDict([name |-> None, domain |-> Domain_abco, description |-> None,
            category |-> PyDict([industry |-> None, sector |-> None]),
            metrics |-> PyDict([employees |-> None, raised |-> None,
                                annualRevenue |-> PyInt(900000)]),
            url |-> None, linkedin |-> PyDict([handle |-> None]),
            tech |-> EmptyList])

\* a company object that leaves keys out
CbPartial ==
    PyDict([name |-> T("Ab C Inc"), domain |-> Domain_abco,
            category |-> PyDict([industry |-> T("Fintech")]),
            tech |-> PyList(<<T("react"), T("react")>>)])

\* values that are present but falsy
CbFalsy ==
    PyDict([name |-> EmptyStr, domain |-> Domain_abco, description |-> EmptyStr,
            category |-> PyDict([industry |-> EmptyStr]),
            metrics |-> PyDict([employees |-> PyInt(0)]),
            url |-> EmptyStr, linkedin |-> PyDict([handle |-> EmptyStr])])

\* "category": null
CbNullCategory ==
    PyDict([name |-> T("Ab C Inc"), domain |-> Domain_abco, category |-> None])

ClearbitBodies == {CbFull, CbGaps, CbPartial, CbFalsy, CbNullCategory, EmptyDict}

ClearbitResponses ==
    {HttpStatus(200, b) : b \in ClearbitBodies}
    \cup {HttpStatus(404, None), HttpStatus(402, None), HttpStatus(500, None),
          HttpTimeout, HttpError}

\* entries of Hunter's data.emails
HeAnn == PyDict([value |-> PyStr(<<"a", "@", "x">>), first_name |-> PyStr(<<"A", "n", "n">>),
                 last_name |-> PyStr(<<"L", "e", "e">>), position |-> T("CEO"),
                 confidence |-> PyInt(95)])
HeAnnUpper == PyDict([value |-> PyStr(<<"A", "@", "X">>), first_name |-> None,
                      last_name |-> None, confidence |-> PyInt(60)])
HeBob == PyDict([value |-> PyStr(<<"b", "@", "x">>), first_name |-> PyStr(<<"B", "o", "b">>),
                 last_name |-> PyStr(<<"R", "a", "y">>)])
HeNullValue == PyDict([value |-> None, first_name |-> PyStr(<<"B", "o", "b">>),
                       last_name |-> PyStr(<<"R", "a", "y">>)])

\* Hunter domain-search data objects
HuFull ==
    PyDict([domain |-> Domain_abco, pattern |-> T("{first}.{last}"), total |-> PyInt(10),
            organization |-> T("Ab C"), emails |-> PyList(<<HeAnn, HeAnnUpper, HeBob>>)])
HuNoTotal ==
    PyDict([domain |-> Domain_abco, pattern |-> None, emails |-> PyList(<<HeBob, HeAnn>>)])
HuNullTotal ==
    PyDict([domain |-> Domain_abco, pattern |-> T("{f}{last}"), total |-> None,
            emails |-> PyList(<<HeNullValue>>)])
HuNullEmails ==
    PyDict([domain |-> Domain_abco, pattern |-> None, total |-> PyInt(0), emails |-> None])

HunterData == {HuFull, HuNoTotal, HuNullTotal, HuNullEmails, EmptyDict}

HunterResponses ==
    {HttpStatus(200, PyDict([data |-> d])) : d \in HunterData}
    \cup {HttpStatus(200, PyDict([errors |-> EmptyList])),
          HttpStatus(404, None), HttpStatus(429, None), HttpStatus(500, None),
          HttpTimeout, HttpError}

\* company descriptors a scraper other than the mock answers with:
\* LinkedInScraper.search_company's placeholder, and a filled-in page
LkPlaceholder ==
    PyDict([name |-> Name_AbC, search_url |-> T("https://www.linkedin.com/search"),
            scraped_at |-> Timestamp, note |-> T("placeholder")])
LkBanking ==
    PyDict([name |-> T("AB C LTD"), description |-> None, industry |-> T("Banking"),
            employee_count |-> PyInt(40), website |-> T("example.com"),
            linkedin_url |-> T("https://www.linkedin.com/company/ab-c/"),
            founded |-> T("1999")])

SearchStubs ==
    {UseMock, Stub(Raise("Exception")), Stub(Ok(None)),
     Stub(Ok(LkPlaceholder)), Stub(Ok(LkBanking)), Stub(Ok(EmptyDict))}

\* contacts a scraper or a test double can answer with
CtAnn == PyDict([email |-> PyStr(<<"a", "@", "x">>), first_name |-> PyStr(<<"A", "n", "n">>),
                 last_name |-> PyStr(<<"L", "e", "e">>), name |-> T("A")])
CtAnnUpper == PyDict([email |-> PyStr(<<"A", "@", "X">>), first_name |-> PyStr(<<"A", "n", "n">>),
                      last_name |-> PyStr(<<"L", "e", "e">>), name |-> T("A2")])
CtBob == PyDict([email |-> PyStr(<<"b", "@", "x">>), name |-> T("B")])
CtNoMailAnn == PyDict([first_name |-> PyStr(<<"A", "n", "n">>),
                       last_name |-> PyStr(<<"L", "e", "e">>), title |-> T("CTO")])
CtNoMailAnnCaps == PyDict([email |-> EmptyStr, first_name |-> PyStr(<<"A", "N", "N">>),
                           last_name |-> PyStr(<<"L", "E", "E">>)])
CtNoMailLee == PyDict([first_name |-> EmptyStr, last_name |-> PyStr(<<"L", "e", "e">>)])
CtNoMailLeeFirst == PyDict([first_name |-> PyStr(<<"L", "E", "E">>)])
CtNameOnly == PyDict([name |-> T("Person 1"), title |-> T("Chief Executive Officer")])

ContactUniverse ==
    {CtAnn, CtAnnUpper, CtBob, CtNoMailAnn, CtNoMailAnnCaps, CtNoMailLee,
     CtNoMailLeeFirst, CtNameOnly}

RECURSIVE SeqsUpTo(_, _)
SeqsUpTo(S, n) ==
    IF n = 0 THEN {<<>>}
    ELSE LET shorter == SeqsUpTo(S, n - 1)
         IN  shorter \cup {Append(q, x) : q \in shorter, x \in S}

\* what scrape_company_employees may answer in the contact specification
EmployeeStubs ==
    {UseMock, Stub(Raise("Exception"))}
    \cup {Stub(Ok(PyList(q))) : q \in SeqsUpTo(ContactUniverse, MaxContacts)}

\* and inside collect_full_profile
FewEmployeeStubs ==
    {UseMock, Stub(Raise("Exception")), Stub(Ok(PyList(<<CtAnnUpper, CtNoMailAnn>>)))}

----------------------------------------------------------------------------
(* The state machine.  A request is one atomic step of the aggregator (the  *)
(* collector awaits each adapter in turn and no other request runs in       *)
(* between); the calling layer then takes the result.                       *)

NoSrc == [linkedin |-> NotCalled, clearbit |-> NotCalled, hunter |-> NotCalled,
          employees |-> NotCalled, hunter_contacts |-> NotCalled]
NoCall == [op |-> "none"]
NoHist == [src |-> NoSrc, contacts |-> <<>>, unique |-> <<>>]
Unused404 == HttpStatus(404, None)

\* the running state a request starts from
Start == [cache |-> cache, trace |-> <<>>, src |-> NoSrc,
          contacts |-> <<>>, unique |-> <<>>]

Finish(r) ==
    /\ pc' = "done"
    /\ cache' = r.st.cache
    /\ trace' = r.st.trace
    /\ hist' = [src |-> r.st.src, contacts |-> r.st.contacts, unique |-> r.st.unique]
    /\ ret' = r.res
    /\ UNCHANGED <<clearbit_api_key, hunter_api_key, redis_up>>

\* a response is drawn only when the request can be sent
ClearbitDraw(domain, all) ==
    IF Truthy(domain) /\ Truthy(clearbit_api_key) THEN all ELSE {Unused404}
HunterDraw(domain, all) ==
    IF Truthy(domain) /\ Truthy(hunter_api_key) THEN all ELSE {Unused404}
SearchDraw(company_name, all) ==
    IF Truthy(company_name) THEN all ELSE {UseMock}

CallCollectCompanyData ==
    /\ pc = "idle"
    /\ \E company_name \in CompanyNameArgs, domain \in DomainArgs, use_cache \in BOOLEAN :
       \E stub \in SearchDraw(company_name, SearchStubs),
          cbResp \in ClearbitDraw(domain, ClearbitResponses),
          huResp \in HunterDraw(domain, HunterResponses) :
            /\ call' = [op |-> "collect_company_data", company_name |-> company_name,
                        domain |-> domain, use_cache |-> use_cache]
            /\ Finish(CollectCompanyData(Start, company_name, domain, use_cache,
                                         stub, cbResp, huResp))

CallCollectContacts(stubs) ==
    /\ pc = "idle"
    /\ \E limit \in 0..MaxLimit, use_cache \in BOOLEAN, stub \in stubs,
          huResp \in HunterDraw(Domain_abco, HunterResponses) :
            /\ call' = [op |-> "collect_contacts", company_name |-> Name_AbC,
                        domain |-> Domain_abco, limit |-> limit, use_cache |-> use_cache]
            /\ Finish(CollectContacts(Start, Name_AbC, Domain_abco, limit, use_cache,
                                      stub, huResp))

ProfileSearchStubs == {UseMock, Stub(Raise("Exception"))}
ProfileClearbitResponses == {HttpStatus(200, CbFull), HttpStatus(200, CbGaps), HttpTimeout}
ProfileHunterResponses ==
    {HttpStatus(200, PyDict([data |-> HuFull])),
     HttpStatus(200, PyDict([data |-> HuNullTotal])), HttpStatus(429, None)}

CallCollectFullProfile ==
    /\ pc = "idle"
    /\ \E company_name \in {None, Name_AbC}, domain \in {None, Domain_abco},
          include_contacts \in BOOLEAN, use_cache \in BOOLEAN :
       \E stub \in SearchDraw(company_name, ProfileSearchStubs),
          cbResp \in ClearbitDraw(domain, ProfileClearbitResponses),
          huResp \in HunterDraw(domain, ProfileHunterResponses),
          stub2 \in (IF include_contacts THEN FewEmployeeStubs ELSE {UseMock}),
          huResp2 \in (IF include_contacts
                       THEN HunterDraw(Domain_abco, ProfileHunterResponses)
                       ELSE {Unused404}) :
            /\ call' = [op |-> "collect_full_profile", company_name |-> company_name,
                        domain |-> domain, include_contacts |-> include_contacts,
                        use_cache |-> use_cache]
            /\ Finish(CollectFullProfile(Start, company_name, domain, include_contacts,
                                         use_cache, stub, cbResp, huResp, stub2, huResp2))

\* the caller takes the result; the next request starts afresh
Return ==
    /\ pc = "done"
    /\ pc' = "idle"
    /\ call' = NoCall
    /\ ret' = Ok(None)
    /\ trace' = <<>>
    /\ hist' = NoHist
    /\ UNCHANGED <<clearbit_api_key, hunter_api_key, redis_up, cache>>

\* a cache entry reaches its TTL (setex)
Expire ==
    /\ pc = "idle"
    /\ \E key \in DOMAIN cache :
        cache' = [x \in DOMAIN cache \ {key} |-> cache[x]]
    /\ UNCHANGED <<clearbit_api_key, hunter_api_key, redis_up, pc, call, ret, trace, hist>>

\* the Redis backend becomes unreachable, or reachable again
RedisDown ==
    /\ pc = "idle" /\ redis_up
    /\ redis_up' = FALSE
    /\ UNCHANGED <<clearbit_api_key, hunter_api_key, cache, pc, call, ret, trace, hist>>

RedisUp ==
    /\ pc = "idle" /\ ~redis_up
    /\ redis_up' = TRUE
    /\ UNCHANGED <<clearbit_api_key, hunter_api_key, cache, pc, call, ret, trace, hist>>

Init ==
    /\ clearbit_api_key \in ApiKeys
    /\ hunter_api_key \in ApiKeys
    /\ redis_up = TRUE
    /\ cache = <<>>
    /\ pc = "idle"
    /\ call = NoCall
    /\ ret = Ok(None)
    /\ trace = <<>>
    /\ hist = NoHist

\* company data collection
Next ==
    \/ CallCollectCompanyData
    \/ Return
    \/ Expire
    \/ RedisDown
    \/ RedisUp

Spec == Init /\ [][Next]_vars

\* whole profiles
InitProfile ==
    /\ clearbit_api_key \in {None, T("sk_live")}
    /\ hunter_api_key \in {None, T("sk_live")}
    /\ redis_up = TRUE
    /\ cache = <<>>
    /\ pc = "idle"
    /\ call = NoCall
    /\ ret = Ok(None)
    /\ trace = <<>>
    /\ hist = NoHist

NextProfile ==
    \/ CallCollectFullProfile
    \/ Return
    \/ Expire

SpecProfile == InitProfile /\ [][NextProfile]_vars

\* the contact pipeline alone, over every short employee list
InitContacts ==
    /\ clearbit_api_key = None
    /\ hunter_api_key \in ApiKeys
    /\ redis_up = TRUE
    /\ cache = <<>>
    /\ pc = "idle"
    /\ call = NoCall
    /\ ret = Ok(None)
    /\ trace = <<>>
    /\ hist = NoHist

NextContacts ==
    \/ CallCollectContacts(EmployeeStubs)
    \/ Return
    \/ Expire

SpecContacts == InitContacts /\ [][NextContacts]_vars

----------------------------------------------------------------------------
(* calculate_lead_score called on its own, on records whose optional fields *)
(* are each absent, null or valued                                          *)

\* longest tech_stack tried
MaxTech == 6

\* a key the record does not have
Absent == [k |-> "absent"]
NoFields == [x \in {} |-> None]
Field(key, x) == IF x = Absent THEN NoFields ELSE key :> x

TechName(i) == PyStr(<<"tech-">> \o Decimal(i))

DescriptiveFields ==
    {NoFields,
     [name |-> T("Test Company")],
     [name |-> T("Test Company"), domain |-> T("test.com"),
      industry |-> T("Technology"), description |-> T("A test company")]}
EmployeeCounts ==
    {Absent, None}
    \cup {PyInt(n) : n \in {0, 1, 49, 50, 51, 200, 499, 500, 501, 999, 1000, 1001, 5000}}
Fundings ==
    {Absent, None, EmptyDict,
     PyDict([total |-> PyInt(5000000), annual_revenue |-> None]),
     PyDict([total |-> None, annual_revenue |-> PyInt(900000)]),
     PyDict([total |-> None, annual_revenue |-> None])}
\* lists of distinct names, and lists that repeat one name
TechStacks ==
    {Absent, None}
    \cup {PyList([i \in 1..n |-> TechName(i)]) : n \in 0..MaxTech}
    \cup {PyList([i \in 1..n |-> TechName(1)]) : n \in 2..MaxTech}
EmailPatterns == {Absent, None, T("{first}.{last}@test.com")}
EmailTotals == {Absent, None, PyInt(0), PyInt(10)}

ScoreRecords ==
    {PyDict(d @@ Field("employee_count", e) @@ Field("funding", f)
              @@ Field("tech_stack", t) @@ Field("email_pattern", p)
              @@ Field("total_emails_found", n)) :
        d \in DescriptiveFields, e \in EmployeeCounts, f \in Fundings,
        t \in TechStacks, p \in EmailPatterns, n \in EmailTotals}

CallCalculateLeadScore ==
    /\ pc = "idle"
    /\ \E company_data \in ScoreRecords :
        /\ call' = [op |-> "calculate_lead_score", company_data |-> company_data]
        /\ ret' = CalculateLeadScore(company_data)
    /\ pc' = "done"
    /\ trace' = <<>>
    /\ hist' = NoHist
    /\ UNCHANGED <<clearbit_api_key, hunter_api_key, redis_up, cache>>

InitScore ==
    /\ clearbit_api_key = None
    /\ hunter_api_key = None
    /\ redis_up = TRUE
    /\ cache = <<>>
    /\ pc = "idle"
    /\ call = NoCall
    /\ ret = Ok(None)
    /\ trace = <<>>
    /\ hist = NoHist

NextScore ==
    \/ CallCalculateLeadScore
    \/ Return

SpecScore == InitScore /\ [][NextScore]_vars

----------------------------------------------------------------------------
(* The cache service called on its own.  The caller keeps the last call and *)
(* its result until the next call.                                          *)

\* (namespace, identifier) pairs; the namespaces are "co" and "co:x"
CachePairs ==
    {<<<<"co">>, <<"y">>>>, <<<<"co">>, <<"x", ":", "y">>>>,
     <<<<"co", ":", "x">>, <<"y">>>>}
CacheNamespaces == {pair[1] : pair \in CachePairs}

\* values handed to set or produced by fetch_func: {"a": 1}, (1, 2), None
\* and the set {1}
VDict == PyDict([a |-> PyInt(1)])
VTuple == PyTuple(<<PyInt(1), PyInt(2)>>)
VSet == PySet({1})
CacheValues == {VDict, VTuple, None, VSet}
TtlArgs == {None, PyInt(60)}
FetchOutcomes == {Ok(v) : v \in CacheValues} \cup {Raise("Exception")}

\* the whole seconds Redis may report for an entry
RemainingDraw(namespace, identifier) ==
    IF GenerateKey(namespace, identifier) \in DOMAIN cache
    THEN {0, 1, cache[GenerateKey(namespace, identifier)].ttl}
    ELSE {0}

CacheFinish(c, r, val) ==
    /\ call' = c
    /\ Finish([st |-> r.st, res |-> Ok(val)])

CallCacheSet ==
    /\ pc = "idle"
    /\ \E pair \in CachePairs, data \in CacheValues, ttl \in TtlArgs :
        CacheFinish([op |-> "cache.set", namespace |-> pair[1], identifier |-> pair[2],
                     data |-> data, ttl |-> ttl],
                    CacheSet(Start, pair[1], pair[2], data, ttl),
                    PyBool(CacheSet(Start, pair[1], pair[2], data, ttl).val))

CallCacheGet ==
    /\ pc = "idle"
    /\ \E pair \in CachePairs :
        CacheFinish([op |-> "cache.get", namespace |-> pair[1], identifier |-> pair[2]],
                    CacheGet(Start, pair[1], pair[2]),
                    CacheGet(Start, pair[1], pair[2]).val)

CallCacheDelete ==
    /\ pc = "idle"
    /\ \E pair \in CachePairs :
        CacheFinish([op |-> "cache.delete", namespace |-> pair[1], identifier |-> pair[2]],
                    CacheDelete(Start, pair[1], pair[2]),
                    PyBool(CacheDelete(Start, pair[1], pair[2]).val))

CallCacheExists ==
    /\ pc = "idle"
    /\ \E pair \in CachePairs :
        CacheFinish([op |-> "cache.exists", namespace |-> pair[1], identifier |-> pair[2]],
                    CacheExists(Start, pair[1], pair[2]),
                    PyBool(CacheExists(Start, pair[1], pair[2]).val))

CallCacheGetTtl ==
    /\ pc = "idle"
    /\ \E pair \in CachePairs :
       \E remaining \in RemainingDraw(pair[1], pair[2]) :
        CacheFinish([op |-> "cache.get_ttl", namespace |-> pair[1], identifier |-> pair[2]],
                    CacheGetTtl(Start, pair[1], pair[2], remaining),
                    CacheGetTtl(Start, pair[1], pair[2], remaining).val)

CallCacheInvalidateNamespace ==
    /\ pc = "idle"
    /\ \E namespace \in CacheNamespaces :
        CacheFinish([op |-> "cache.invalidate_namespace", namespace |-> namespace],
                    CacheInvalidateNamespace(Start, namespace),
                    PyInt(CacheInvalidateNamespace(Start, namespace).val))

CallCacheGetOrSet ==
    /\ pc = "idle"
    /\ \E pair \in CachePairs, fetch \in FetchOutcomes, ttl \in TtlArgs :
        CacheFinish([op |-> "cache.get_or_set", namespace |-> pair[1],
                     identifier |-> pair[2], fetch |-> fetch, ttl |-> ttl],
                    CacheGetOrSet(Start, pair[1], pair[2], fetch, ttl),
                    CacheGetOrSet(Start, pair[1], pair[2], fetch, ttl).val)

\* what Clearbit answers to an aggregation made beside the cache calls
OutageClearbitResponses == {HttpStatus(200, CbPartial), HttpStatus(404, None)}

\* collect_company_data with both identities, the response kept with the call
CallCollectBesideCache ==
    /\ pc = "idle"
    /\ \E use_cache \in BOOLEAN, cbResp \in OutageClearbitResponses :
        /\ call' = [op |-> "collect_company_data", company_name |-> Name_AbC,
                    domain |-> Domain_abco, use_cache |-> use_cache, response |-> cbResp]
        /\ Finish(CollectCompanyData(Start, Name_AbC, Domain_abco, use_cache,
                                     UseMock, cbResp, Unused404))

\* the caller goes on, keeping the last call and what it returned
Continue ==
    /\ pc = "done"
    /\ pc' = "idle"
    /\ UNCHANGED <<clearbit_api_key, hunter_api_key, redis_up, cache, call, ret, trace, hist>>

InitCache ==
    /\ clearbit_api_key = T("sk_live")
    /\ hunter_api_key = None
    /\ redis_up = TRUE
    /\ cache = <<>>
    /\ pc = "idle"
    /\ call = NoCall
    /\ ret = Ok(None)
    /\ trace = <<>>
    /\ hist = NoHist

NextCache ==
    \/ CallCacheSet
    \/ CallCacheGet
    \/ CallCacheDelete
    \/ CallCacheExists
    \/ CallCacheGetTtl
    \/ CallCacheInvalidateNamespace
    \/ CallCacheGetOrSet
    \/ CallCollectBesideCache
    \/ Continue
    \/ Expire
    \/ RedisDown
    \/ RedisUp

SpecCache == InitCache /\ [][NextCache]_vars

----------------------------------------------------------------------------
(* The Clearbit adapter called on its own *)

EnrichDomains == {Domain_abco, T("x.io")}
\* the JSON body of an error answer
ErrorBody == PyDict([error |-> T("denied")])
EnrichResponses ==
    {HttpStatus(200, CbPartial), HttpStatus(200, EmptyDict), HttpStatus(200, NotJson),
     HttpStatus(404, ErrorBody), HttpStatus(402, ErrorBody), HttpStatus(429, ErrorBody),
     HttpStatus(500, NotJson), HttpTimeout, HttpError}

CallEnrichCompany ==
    /\ pc = "idle"
    /\ \E domain \in EnrichDomains, use_cache \in BOOLEAN, resp \in EnrichResponses :
        /\ call' = [op |-> "clearbit.enrich_company", domain |-> domain,
                    use_cache |-> use_cache, response |-> resp]
        /\ Finish([st |-> ClearbitEnrichCompany(Start, domain, use_cache, resp).st,
                   res |-> Ok(ClearbitEnrichCompany(Start, domain, use_cache, resp).val)])

InitClearbit ==
    /\ clearbit_api_key \in ApiKeys
    /\ hunter_api_key = None
    /\ redis_up = TRUE
    /\ cache = <<>>
    /\ pc = "idle"
    /\ call = NoCall
    /\ ret = Ok(None)
    /\ trace = <<>>
    /\ hist = NoHist

NextClearbit ==
    \/ CallEnrichCompany
    \/ Return
    \/ Expire
    \/ RedisDown
    \/ RedisUp

SpecClearbit == InitClearbit /\ [][NextClearbit]_vars

----------------------------------------------------------------------------
(* The Playwright scraper called on its own, call after call *)

NavOutcomes == {"ok", "blocked", "timeout", "error"}
ScraperNames == {Name_AbC, T("Xy")}

CallScraperSearchCompany ==
    /\ pc = "idle"
    /\ \E company_name \in ScraperNames, use_cache \in BOOLEAN, nav \in NavOutcomes :
        CacheFinish([op |-> "linkedin.search_company", company_name |-> company_name,
                     use_cache |-> use_cache, nav |-> nav],
                    ScraperSearchCompany(Start, company_name, use_cache, nav),
                    ScraperSearchCompany(Start, company_name, use_cache, nav).val)

CallScraperScrapeCompanyEmployees ==
    /\ pc = "idle"
    /\ \E limit \in 0..MaxLimit, use_cache \in BOOLEAN, nav \in NavOutcomes :
        CacheFinish([op |-> "linkedin.scrape_company_employees", company_name |-> Name_AbC,
                     limit |-> limit, use_cache |-> use_cache, nav |-> nav],
                    ScraperScrapeCompanyEmployees(Start, Name_AbC, limit, use_cache, nav),
                    ScraperScrapeCompanyEmployees(Start, Name_AbC, limit, use_cache, nav).val)

NextScraper ==
    \/ CallScraperSearchCompany
    \/ CallScraperScrapeCompanyEmployees
    \/ Continue
    \/ Expire
    \/ RedisDown
    \/ RedisUp

SpecScraper == InitCache /\ [][NextScraper]_vars

----------------------------------------------------------------------------
(* The Hunter adapter called on its own *)

\* patterns as Hunter reports them, a placeholder being one symbol
PatternFirstLast == PyStr(<<"{first}", ".", "{last}", "@", "ab.co">>)
PatternInitialLast == PyStr(<<"{f}", "{last}", "@", "ab.co">>)
PatternResponses ==
    {HttpStatus(200, PyDict([data |-> PyDict([domain |-> Domain_abco, pattern |-> x])])) :
        x \in {PatternFirstLast, PatternInitialLast, None}}
    \cup {HttpStatus(429, None), HttpTimeout}
FirstNames == {PyStr(<<"A", "n", "n">>), EmptyStr}
LastNames == {PyStr(<<"L", "e", "e">>), EmptyStr}

CallHunterGenerateEmail ==
    /\ pc = "idle"
    /\ \E first_name \in FirstNames, last_name \in LastNames, resp \in PatternResponses :
        /\ call' = [op |-> "hunter.generate_email", first_name |-> first_name,
                    last_name |-> last_name, domain |-> Domain_abco, response |-> resp]
        /\ Finish(HunterGenerateEmail(Start, first_name, last_name, Domain_abco, resp))

CallHunterDomainSearch ==
    /\ pc = "idle"
    /\ \E use_cache \in BOOLEAN, resp \in PatternResponses :
        /\ call' = [op |-> "hunter.domain_search", domain |-> Domain_abco,
                    use_cache |-> use_cache, response |-> resp]
        /\ Finish([st |-> HunterDomainSearch(Start, Domain_abco, use_cache, resp).st,
                   res |-> Ok(HunterDomainSearch(Start, Domain_abco, use_cache, resp).val)])

InitHunter ==
    /\ clearbit_api_key = None
    /\ hunter_api_key \in ApiKeys
    /\ redis_up = TRUE
    /\ cache = <<>>
    /\ pc = "idle"
    /\ call = NoCall
    /\ ret = Ok(None)
    /\ trace = <<>>
    /\ hist = NoHist

NextHunter ==
    \/ CallHunterGenerateEmail
    \/ CallHunterDomainSearch
    \/ Return
    \/ Expire
    \/ RedisDown
    \/ RedisUp

SpecHunter == InitHunter /\ [][NextHunter]_vars

----------------------------------------------------------------------------
(* _merge_company_data called on its own, on results whose sources each  *)
(* provide industry, employee_count, both or neither                     *)

LinkedInPartials ==
    {None, EmptyDict,
     PyDict([industry |-> T("Banking")]),
     PyDict([employee_count |-> PyInt(40)]),
     PyDict([industry |-> T("Banking"), employee_count |-> PyInt(40)]),
     PyDict([industry |-> None, employee_count |-> PyInt(40)])}
AggregatedPartials ==
    {EmptyDict,
     PyDict([employee_count |-> PyInt(200)]),
     PyDict([industry |-> T("Fintech")]),
     PyDict([industry |-> T("Fintech"), employee_count |-> PyInt(200)]),
     PyDict([employee_count |-> PyInt(0)])}
RawPayloads == {None, PyDict([domain |-> Domain_abco])}

CallMergeCompanyData ==
    /\ pc = "idle"
    /\ \E linkedin \in LinkedInPartials, aggregated \in AggregatedPartials,
          clearbit \in RawPayloads, hunter \in RawPayloads :
        /\ call' = [op |-> "_merge_company_data",
                    result |-> PyDict([collected_at |-> Timestamp,
                                       company_name |-> Name_AbC,
                                       domain |-> Domain_abco,
                                       linkedin_data |-> linkedin,
                                       clearbit_data |-> clearbit,
                                       hunter_data |-> hunter,
                                       aggregated_data |-> aggregated])]
        /\ ret' = Ok(MergeCompanyData(call'.result))
        /\ pc' = "done"
        /\ trace' = <<>>
        /\ hist' = NoHist
        /\ UNCHANGED <<clearbit_api_key, hunter_api_key, redis_up, cache>>

NextMerge ==
    \/ CallMergeCompanyData
    \/ Return

SpecMerge == InitCache /\ [][NextMerge]_vars

----------------------------------------------------------------------------
(* Two concurrent enrich_company requests on one cache key *)

\* Two enrich_company requests for one domain, with use_cache true, run in
\* two workers against the same Redis.  Here pc, call and ret hold one entry
\* per request: pc[p] is where request p stands ("get", "fetch", "set" or
\* "done"), call[p].data is its local variable data and ret[p] what it
\* returned; call[p].missed says that its get found nothing in a reachable
\* Redis, call[p].failed that its fetch gave no data; hist.last_set is the
\* payload of the latest set that Redis accepted.  Each step is one Redis
\* command or one HTTP exchange.

Requests == {1, 2}
RaceResponses == {HttpStatus(200, CbFull), HttpStatus(200, CbPartial), HttpStatus(404, None)}
NewRequest ==
    [op |-> "clearbit.enrich_company", domain |-> Domain_abco, use_cache |-> TRUE,
     missed |-> FALSE, failed |-> FALSE, data |-> None]
\* the running state of a step taken now
Now == [cache |-> cache, trace |-> <<>>, src |-> NoSrc, contacts |-> <<>>, unique |-> <<>>]

\* cached = cache_service.get("clearbit", domain); if cached: return cached
RaceGet(p) ==
    /\ pc[p] = "get"
    /\ IF Truthy(CacheGet(Now, S_clearbit, Format(call[p].domain)).val)
       THEN /\ pc' = [pc EXCEPT ![p] = "done"]
            /\ ret' = [ret EXCEPT ![p] = Ok(CacheGet(Now, S_clearbit, Format(call[p].domain)).val)]
            /\ call' = call
       ELSE /\ pc' = [pc EXCEPT ![p] = "fetch"]
            /\ ret' = ret
            /\ call' = [call EXCEPT ![p].missed = redis_up]
    /\ UNCHANGED <<clearbit_api_key, hunter_api_key, redis_up, cache, trace, hist>>

\* data = self._make_request(...); without data the request returns it
RaceFetch(p) ==
    /\ pc[p] = "fetch"
    /\ \E resp \in RaceResponses :
        /\ call' = [call EXCEPT ![p].failed = ~Truthy(ClearbitMakeRequest(Now, resp).val),
                                ![p].data = ClearbitMakeRequest(Now, resp).val]
        /\ IF Truthy(ClearbitMakeRequest(Now, resp).val)
           THEN pc' = [pc EXCEPT ![p] = "set"] /\ ret' = ret
           ELSE /\ pc' = [pc EXCEPT ![p] = "done"]
                /\ ret' = [ret EXCEPT ![p] = Ok(ClearbitMakeRequest(Now, resp).val)]
    /\ UNCHANGED <<clearbit_api_key, hunter_api_key, redis_up, cache, trace, hist>>

\* cache_service.set("clearbit", domain, data, ttl=settings.cache_ttl); return data
RaceSet(p) ==
    /\ pc[p] = "set"
    /\ cache' = ClearbitCacheResult([st |-> Now, val |-> call[p].data],
                                    call[p].domain, call[p].use_cache).st.cache
    /\ hist' = IF redis_up THEN [last_set |-> call[p].data] ELSE hist
    /\ ret' = [ret EXCEPT ![p] = Ok(call[p].data)]
    /\ pc' = [pc EXCEPT ![p] = "done"]
    /\ UNCHANGED <<clearbit_api_key, hunter_api_key, redis_up, call, trace>>

\* the worker takes the next request for the same domain
RaceAgain(p) ==
    /\ pc[p] = "done"
    /\ pc' = [pc EXCEPT ![p] = "get"]
    /\ call' = [call EXCEPT ![p] = NewRequest]
    /\ ret' = [ret EXCEPT ![p] = Ok(None)]
    /\ UNCHANGED <<clearbit_api_key, hunter_api_key, redis_up, cache, trace, hist>>

\* Redis becomes unreachable or reachable between two steps
RaceRedisFlips ==
    /\ redis_up' = ~redis_up
    /\ UNCHANGED <<clearbit_api_key, hunter_api_key, cache, pc, call, ret, trace, hist>>

InitRace ==
    /\ clearbit_api_key = T("sk_live")
    /\ hunter_api_key = None
    /\ redis_up = TRUE
    /\ cache = <<>>
    /\ pc = [p \in Requests |-> "get"]
    /\ call = [p \in Requests |-> NewRequest]
    /\ ret = [p \in Requests |-> Ok(None)]
    /\ trace = <<>>
    /\ hist = [last_set |-> None]

NextRace ==
    \/ \E p \in Requests : RaceGet(p)
    \/ \E p \in Requests : RaceFetch(p)
    \/ \E p \in Requests : RaceSet(p)
    \/ \E p \in Requests : RaceAgain(p)
    \/ RaceRedisFlips

SpecRace == InitRace /\ [][NextRace]_vars

----------------------------------------------------------------------------
(* Vocabulary of the properties *)

\* an identity argument that was supplied
Given(x) == x # None /\ x # EmptyStr
\* a credential that is not configured
NotConfigured(key) == key = None \/ key = EmptyStr

Done(op) == pc = "done" /\ call.op = op
Returned(op) == Done(op) /\ ret.ok
ValidCall == Given(call.company_name) \/ Given(call.domain)

\* what a source handed back in this call (None when it was not called or raised)
Payload(source) ==
    IF hist.src[source].called /\ hist.src[source].out.ok
    THEN hist.src[source].out.v ELSE None
Failed(source) == hist.src[source].called /\ Payload(source) = None

InTrace(event) == \E i \in DOMAIN trace : trace[i] = event

\* the value found in a payload along a path of keys, None when missing
RECURSIVE Lookup(_, _)
Lookup(p, path) ==
    IF p.k # "dict" \/ Head(path) \notin DOMAIN p.v THEN None
    ELSE IF Len(path) = 1 THEN p.v[Head(path)]
    ELSE Lookup(p.v[Head(path)], Tail(path))

\* where the firmographic provider carries each field both sources can provide
FirmographicPath ==
    [name |-> <<"name">>, description |-> <<"description">>,
     industry |-> <<"category", "industry">>,
     employee_count |-> <<"metrics", "employees">>,
     website |-> <<"url">>, linkedin_url |-> <<"linkedin", "handle">>]
SharedFields == DOMAIN FirmographicPath
FirmographicValue(f) == Lookup(Payload("clearbit"), FirmographicPath[f])
ScrapedValue(f) == Lookup(Payload("linkedin"), <<f>>)

Sources == <<"linkedin", "clearbit", "hunter">>
SourceName == [linkedin |-> PyStr(S_linkedin), clearbit |-> PyStr(S_clearbit),
               hunter |-> PyStr(S_hunter)]
DataKey == [linkedin |-> "linkedin_data", clearbit |-> "clearbit_data",
            hunter |-> "hunter_data"]
Merged == Lookup(ret.v, <<"aggregated_data">>)
SourcesUsedOut == Lookup(Merged, <<"sources_used">>)
Used(source) ==
    SourcesUsedOut.k = "list"
    /\ \E i \in DOMAIN SourcesUsedOut.v : SourcesUsedOut.v[i] = SourceName[source]

----------------------------------------------------------------------------
(* C1: collect_company_data called with neither a company name nor a domain
   (absent or empty) raises the invalid-input error (ValueError), calls no
   source adapter, sends no request and performs no cache get or set: the
   cache is as it was before the call. *)
C1_InvalidInputHasNoEffect ==
    [][(pc = "idle" /\ pc' = "done" /\ call'.op = "collect_company_data"
        /\ ~Given(call'.company_name) /\ ~Given(call'.domain))
       => (/\ ~ret'.ok
           /\ ret'.exc = "ValueError"
           /\ trace' = <<>>
           /\ hist'.src = NoSrc
           /\ cache' = cache)]_vars

\* an empty name and no domain, refused while the cache holds entries
C1_Witness ==
    /\ Done("collect_company_data")
    /\ call.company_name = EmptyStr /\ call.domain = None
    /\ ~ret.ok
    /\ DOMAIN cache # {}

(* C2: for every field both the firmographic and the scraped-profile source
   provide with a non-null value (name, description, industry,
   employee_count, website, linkedin_url) the merged record carries the
   firmographic value. *)
C2_FirmographicWins ==
    Returned("collect_company_data") =>
        \A f \in SharedFields :
            (FirmographicValue(f) # None /\ ScrapedValue(f) # None)
                => Lookup(Merged, <<f>>) = FirmographicValue(f)

(* C3: whenever the firmographic source omits a field, returns null for it,
   is unavailable or returned nothing, and the scraped-profile source
   provides that field, the merged record carries the scraped-profile
   value. *)
C3_GapFilling ==
    Returned("collect_company_data") =>
        \A f \in SharedFields :
            (FirmographicValue(f) = None /\ ScrapedValue(f) # None)
                => Lookup(Merged, <<f>>) = ScrapedValue(f)

\* the firmographic record has no website, the scraped one has example.com
C3_Witness ==
    /\ Returned("collect_company_data")
    /\ Payload("clearbit") = CbGaps
    /\ Payload("linkedin") = LkBanking
    /\ Lookup(Merged, <<"website">>) = T("example.com")

\* the names of the sources that satisfy Counts, in the fixed order
Listing(Counts(_)) ==
    LET counted == SelectSeq(Sources, Counts)
    IN  PyList([i \in 1..Len(counted) |-> SourceName[counted[i]]])

NonNull(source) == Payload(source) # None
NonEmpty(source) == Payload(source) # None /\ Payload(source) # EmptyDict

(* C4: after every collect_company_data call that returns, sources_used is
   exactly the sources that returned a non-null payload in that call, each
   once, in the order linkedin, clearbit, hunter. *)
C4_ListsEveryNonNullPayload ==
    Returned("collect_company_data") => SourcesUsedOut = Listing(NonNull)

(* C4, as the code has it: after every collect_company_data call that
   returns, sources_used is exactly the sources that returned a non-null,
   non-empty payload in that call, each once, in the order linkedin,
   clearbit, hunter; a source that answered with an empty object is not
   listed. *)
C4_SourcesUsedExactAndOrdered ==
    Returned("collect_company_data") => SourcesUsedOut = Listing(NonEmpty)

\* the middle source answered with an empty object, the outer two with data
C4_Witness ==
    /\ Returned("collect_company_data")
    /\ NonEmpty("linkedin")
    /\ Payload("clearbit") = EmptyDict
    /\ NonEmpty("hunter")
    /\ SourcesUsedOut = PyList(<<PyStr(S_linkedin), PyStr(S_hunter)>>)

\* a source whose credential is missing: not called, no request, not listed,
\* and the record still holds what the other sources handed back
SkippedCleanly(source, others) ==
    /\ ret.ok
    /\ ~hist.src[source].called
    /\ ~InTrace(source \o ".enrich_company") /\ ~InTrace(source \o ".domain_search")
    /\ ~InTrace("http." \o source)
    /\ ~Used(source)
    /\ Lookup(ret.v, <<DataKey[source]>>) = None
    /\ \A o \in others :
        /\ Lookup(ret.v, <<DataKey[o]>>) = Payload(o)
        /\ Used(o) => Payload(o) # None

(* C5: when the firmographic credential is not configured, a
   collect_company_data call with an identity never invokes that source's
   fetch, raises nothing, returns a record built from the other sources and
   leaves the source out of sources_used; the same for the email-discovery
   source. *)
C5_UnavailableSourceSkipped ==
    (Done("collect_company_data") /\ ValidCall) =>
        /\ NotConfigured(clearbit_api_key) => SkippedCleanly("clearbit", {"linkedin", "hunter"})
        /\ NotConfigured(hunter_api_key) => SkippedCleanly("hunter", {"linkedin", "clearbit"})

\* an empty-string Clearbit key, and both other sources in the record
C5_Witness ==
    /\ Done("collect_company_data")
    /\ clearbit_api_key = EmptyStr
    /\ Given(call.domain)
    /\ ret.ok
    /\ Used("hunter") /\ Used("linkedin")
    /\ Lookup(ret.v, <<"hunter_data">>) = HuFull

\* the sources a call must try
Applicable(source) ==
    CASE source = "linkedin" -> Given(call.company_name)
      [] source = "clearbit" -> Given(call.domain) /\ ~NotConfigured(clearbit_api_key)
      [] source = "hunter" -> Given(call.domain) /\ ~NotConfigured(hunter_api_key)

ResultKeys ==
    {"collected_at", "company_name", "domain", "linkedin_data", "clearbit_data",
     "hunter_data", "aggregated_data"}

(* C6: a collect_company_data call with an identity returns a record of the
   fixed shape without raising, whichever sources raise or return null;
   every applicable source is invoked, what each answering source returned is
   in the record and the source is listed; when none answers, sources_used
   is empty. *)
C6_IsolateAndContinue ==
    (Done("collect_company_data") /\ ValidCall) =>
        /\ ret.ok
        /\ ret.v.k = "dict" /\ DOMAIN ret.v.v = ResultKeys
        /\ Merged.k = "dict" /\ SourcesUsedOut.k = "list"
        /\ \A i \in DOMAIN Sources :
            LET x == Sources[i]
            IN  /\ Applicable(x) <=> hist.src[x].called
                /\ Lookup(ret.v, <<DataKey[x]>>) = Payload(x)
                /\ Used(x) => Payload(x) # None
        /\ (\A i \in DOMAIN Sources : Payload(Sources[i]) = None)
                => SourcesUsedOut = EmptyList

\* the scraper raised, Clearbit returned nothing, Hunter still answered
C6_Witness ==
    /\ Done("collect_company_data")
    /\ hist.src["linkedin"].called /\ ~hist.src["linkedin"].out.ok
    /\ Failed("clearbit")
    /\ Payload("hunter") # None
    /\ ret.ok
    /\ SourcesUsedOut = PyList(<<PyStr(S_hunter)>>)

----------------------------------------------------------------------------
(* Contacts *)

\* the list a contact source handed back in this call
ListOf(source) ==
    IF Payload(source).k = "list" THEN Payload(source).v ELSE <<>>

\* the contacts of one call in source-concatenation order, what
\* deduplication made of them, and the list the call returned
Concatenated == hist.contacts
Deduplicated == hist.unique
ReturnedContacts == ret.v.v

TextOf(c, field) ==
    IF Lookup(c, <<field>>).k = "str" THEN Lookup(c, <<field>>).v ELSE <<>>
HasEmail(c) == TextOf(c, "email") # <<>>
FoldedEmail(c) == Lower(TextOf(c, "email"))
\* the case-folded, trimmed "first last" name
FoldedName(c) ==
    Strip(Lower(TextOf(c, "first_name") \o <<" ">> \o TextOf(c, "last_name")))

\* the first position of a sequence that satisfies P
First(q, P(_)) == CHOOSE k \in DOMAIN q : P(q[k]) /\ \A j \in 1..(k - 1) : ~P(q[j])

(* C7: collect_contacts never raises anything but the invalid-input error,
   whatever contact lists and payloads the adapters return, contacts whose
   email is null included. *)
C7_OnlyInvalidInputSurfaces ==
    Done("collect_contacts") => (ret.ok \/ ret.exc = "ValueError")

\* no two email-bearing contacts of q agree on the case-folded email, and
\* each is the first contact of the input carrying that email
EmailsUniqueFirstSeen(q) ==
    /\ \A i, j \in DOMAIN q :
        (i < j /\ HasEmail(q[i]) /\ HasEmail(q[j]))
            => FoldedEmail(q[i]) # FoldedEmail(q[j])
    /\ \A i \in DOMAIN q :
        HasEmail(q[i]) =>
            LET SameEmail(c) == HasEmail(c) /\ FoldedEmail(c) = FoldedEmail(q[i])
            IN  q[i] = Concatenated[First(Concatenated, SameEmail)]

(* C8: in the list one collect_contacts call returns, no two contacts have
   non-empty emails equal ignoring case, and the contact kept for an email
   is the first that carries it in the concatenation of the scraped-profile
   contacts followed by the email-discovery contacts; it is that contact
   unchanged, not a merge with later duplicates. *)
C8_EmailDedupFirstSeen ==
    Returned("collect_contacts") =>
        /\ Concatenated = ListOf("employees") \o ListOf("hunter_contacts")
        /\ EmailsUniqueFirstSeen(Deduplicated)
        /\ EmailsUniqueFirstSeen(ReturnedContacts)
        /\ ReturnedContacts = Take(Deduplicated, call.limit)

\* the scraper and Hunter both know a@x, in different case; the scraper's
\* record is the one returned
C8_Witness ==
    /\ Returned("collect_contacts")
    /\ ListOf("employees") = <<CtAnnUpper>>
    /\ Len(ListOf("hunter_contacts")) = 2
    /\ FoldedEmail(ListOf("hunter_contacts")[2]) = FoldedEmail(CtAnnUpper)
    /\ ListOf("hunter_contacts")[2] # CtAnnUpper
    /\ ReturnedContacts = <<CtAnnUpper, ListOf("hunter_contacts")[1]>>

(* C9: among the contacts without an email, those that share a case-folded,
   trimmed "first last" name collapse to the first of them and contacts
   with different names all survive; contacts with an email are kept
   whatever email-less contacts carry the same name. *)
C9_EmailLessCollapseByName ==
    Returned("collect_contacts") =>
        /\ \A k \in DOMAIN Concatenated :
            ~HasEmail(Concatenated[k]) =>
                LET SameName(c) == ~HasEmail(c) /\ FoldedName(c) = FoldedName(Concatenated[k])
                IN  /\ Cardinality({i \in DOMAIN Deduplicated : SameName(Deduplicated[i])}) = 1
                    /\ \E i \in DOMAIN Deduplicated :
                        Deduplicated[i] = Concatenated[First(Concatenated, SameName)]
        /\ \A k \in DOMAIN Concatenated :
            HasEmail(Concatenated[k]) =>
                \E i \in DOMAIN Deduplicated :
                    HasEmail(Deduplicated[i])
                    /\ FoldedEmail(Deduplicated[i]) = FoldedEmail(Concatenated[k])

\* the same statement for the contacts whose "first last" name is not empty
C9_NamedEmailLessCollapseByName ==
    Returned("collect_contacts") =>
        \A k \in DOMAIN Concatenated :
            (~HasEmail(Concatenated[k]) /\ FoldedName(Concatenated[k]) # <<>>) =>
                LET SameName(c) == ~HasEmail(c) /\ FoldedName(c) = FoldedName(Concatenated[k])
                IN  /\ Cardinality({i \in DOMAIN Deduplicated : SameName(Deduplicated[i])}) = 1
                    /\ \E i \in DOMAIN Deduplicated :
                        Deduplicated[i] = Concatenated[First(Concatenated, SameName)]

\* the key deduplication applies to a contact: the email when there is one,
\* the name otherwise
SameKey(a, b) ==
    IF HasEmail(a) THEN HasEmail(b) /\ FoldedEmail(a) = FoldedEmail(b)
    ELSE ~HasEmail(b) /\ FoldedName(a) = FoldedName(b)
Kept(c) == \E i \in DOMAIN Deduplicated : Deduplicated[i] = c

(* C10: first-seen wins for every key: every contact of the concatenated
   input is in the deduplicated output or comes after a kept contact with
   the same key; so the first contact of a non-empty input is kept, also
   when it has no email and no first/last name fields. *)
C10_FirstSeenWins ==
    Returned("collect_contacts") =>
        \A k \in DOMAIN Concatenated :
            \/ Kept(Concatenated[k])
            \/ \E j \in 1..(k - 1) :
                Kept(Concatenated[j]) /\ SameKey(Concatenated[j], Concatenated[k])

(* C11: collect_contacts truncates after deduplication: for every limit >= 0
   the result is the first min(limit, n) entries of the deduplicated
   concatenation of both sources' contacts (n its length); every key of the
   whole concatenation is still represented in the deduplicated list, and
   the result has at most limit entries and no two entries with one key. *)
C11_TruncatesAfterDedup ==
    (Returned("collect_contacts") /\ call.limit >= 0) =>
        LET n == Len(Deduplicated)
            m == IF call.limit < n THEN call.limit ELSE n
        IN  /\ Len(ReturnedContacts) = m
            /\ \A i \in 1..m : ReturnedContacts[i] = Deduplicated[i]
            /\ Len(ReturnedContacts) <= call.limit
            /\ \A i, j \in DOMAIN ReturnedContacts :
                i < j => ~SameKey(ReturnedContacts[i], ReturnedContacts[j])
            /\ \A k \in DOMAIN Concatenated :
                (HasEmail(Concatenated[k]) \/ FoldedName(Concatenated[k]) # <<>>)
                    => \E i \in DOMAIN Deduplicated :
                        SameKey(Deduplicated[i], Concatenated[k])

\* the first two contacts collected are duplicates of each other and the
\* call still returns limit = 2 contacts
C11_Witness ==
    /\ Returned("collect_contacts")
    /\ call.limit = 2
    /\ Len(Concatenated) > 2
    /\ SameKey(Concatenated[1], Concatenated[2])
    /\ Len(ReturnedContacts) = 2
    /\ ReturnedContacts[2] = Concatenated[3]

----------------------------------------------------------------------------
(* Lead score *)

Scored == Done("calculate_lead_score")
Record == call.company_data
HasField(f) == f \in DOMAIN Record.v

(* C12: calculate_lead_score applied to a fully empty record returns 5: an
   absent employee_count is scored in the default size-fit bucket, worth 5
   points, not 0. *)
C12_EmptyRecordScoresFive ==
    (Scored /\ Record = EmptyDict) => ret = Ok(5)

\* the size-fit points the scoring policy awards
SizeFitPolicy(n) ==
    IF 50 <= n /\ n <= 500 THEN 20
    ELSE IF 500 < n /\ n <= 1000 THEN 15
    ELSE IF n < 50 THEN 10
    ELSE 5

(* C13: the size-fit component is 20 for 50 <= n <= 500, 15 for
   500 < n <= 1000, 10 for n < 50 (n = 0 included), 5 for n > 1000 and 5
   when employee_count is absent.  Stated on the records that carry no other
   field, whose score is the size-fit component plus the completeness share
   of employee_count (6 when it counts as non-empty, which a count of 0 may
   or may not). *)
C13_SizeFitBuckets ==
    (Scored /\ DOMAIN Record.v \subseteq {"employee_count"}) =>
        IF ~HasField("employee_count") THEN ret = Ok(5)
        ELSE LET e == Record.v["employee_count"]
             IN  (e.k = "int" /\ e.v >= 0) =>
                    /\ ret.ok
                    /\ \/ ret.v = SizeFitPolicy(e.v) + 6
                       \/ e.v = 0 /\ ret.v = SizeFitPolicy(e.v)

(* C14: calculate_lead_score is total and bounded: for every record whose
   optional fields are each absent, null or valued it returns a number in
   [0, 100] without raising. *)
C14_ScoreTotalAndBounded ==
    Scored => (ret.ok /\ 0 <= ret.v /\ ret.v <= 100)

\* non-empty text under a key
Filled(f) == TextOf(Record, f) # <<>>

\* all five completeness fields, 200 employees, 5,000,000 raised, six
\* technologies, an email pattern and ten emails found
FullRecord ==
    /\ \A f \in {"name", "domain", "industry", "description"} : Filled(f)
    /\ Lookup(Record, <<"employee_count">>) = PyInt(200)
    /\ Lookup(Record, <<"funding", "total">>) = PyInt(5000000)
    /\ Lookup(Record, <<"tech_stack">>).k = "list"
    /\ Len(Lookup(Record, <<"tech_stack">>).v) = 6
    /\ Filled("email_pattern")
    /\ Lookup(Record, <<"total_emails_found">>) = PyInt(10)

(* C15: a record with all five completeness fields non-empty,
   employee_count = 200, funding.total = 5000000, a tech_stack of 6 items,
   email_pattern set and total_emails_found = 10 scores exactly 100, and no
   record scores above 100. *)
C15_FullRecordScoresHundred ==
    Scored =>
        /\ FullRecord => ret = Ok(100)
        /\ ret.ok => ret.v <= 100

C15_Witness ==
    Scored /\ FullRecord /\ ret = Ok(100)

(* C16: the technology signal is min(3 * k, 15) with k the number of
   distinct technologies, so a list that repeats one name contributes 3
   points.  Stated on the records that carry only a tech_stack list, whose
   score is the technology signal. *)
C16_TechSignalCountsDistinct ==
    (Scored /\ DOMAIN Record.v = {"tech_stack"} /\ Record.v["tech_stack"].k = "list") =>
        LET tech == Record.v["tech_stack"].v
            k == Cardinality({tech[i] : i \in DOMAIN tech})
        IN  ret = Ok(IF 3 * k < 15 THEN 3 * k ELSE 15)

----------------------------------------------------------------------------
(* Cache service *)

\* a call starts and completes in this step
Calls(op) == pc = "idle" /\ pc' = "done" /\ call'.op = op
\* the call before this one was op and this one names the same pair
Follows(op) ==
    /\ call.op = op
    /\ call'.namespace = call.namespace
    /\ call'.identifier = call.identifier
PyTrue == Ok(PyBool(TRUE))
PyFalse == Ok(PyBool(FALSE))
\* the entry written by the last call is still held by the store
StillHeld == GenerateKey(call.namespace, call.identifier) \in DOMAIN cache

\* what the claim's round trip requires of one step, read(v) being the value
\* a get must return after set(..., v, ...)
RoundTripStep(read(_)) ==
    /\ Calls("cache.set") /\ redis_up /\ JsonSerializable(call'.data)
          => ret' = PyTrue
    /\ Calls("cache.get") /\ Follows("cache.set") /\ ret = PyTrue
            /\ redis_up /\ StillHeld
          => ret' = Ok(read(call.data))
    /\ Calls("cache.exists") /\ Follows("cache.delete") /\ ret = PyTrue /\ redis_up
          => ret' = PyFalse
    /\ Calls("cache.get") /\ Follows("cache.delete") /\ ret = PyTrue /\ redis_up
          => ret' = Ok(None)
SameValue(v) == v

\* C17 (as claimed): with a reachable store, set of a JSON-serializable v
\* returns true and the following get of the same pair, the entry not yet
\* expired, returns a value equal to v; after delete, exists is false and get
\* is absent.
C17_RoundTripReturnsEqualValue == [][RoundTripStep(SameValue)]_vars

\* C17 (amended): with a reachable store, set of a JSON-serializable v returns
\* true and the following get of the same pair, the entry not yet expired,
\* returns json.loads(json.dumps(v)), which is v with every tuple read back as
\* a list; after delete, exists is false and get is absent.
C17_RoundTripReturnsDecodedValue == [][RoundTripStep(JsonValue)]_vars

\* a get has just returned the list [1, 2]: the tuple (1, 2) was stored
C17_Witness ==
    /\ Done("cache.get")
    /\ redis_up
    /\ ret = Ok(PyList(<<PyInt(1), PyInt(2)>>))

\* what each cache operation hands back when Redis cannot be reached
Degraded(op) ==
    CASE op = "cache.get" -> Ok(None)
      [] op = "cache.set" -> PyFalse
      [] op = "cache.exists" -> PyFalse
      [] op = "cache.get_ttl" -> Ok(None)
      [] op = "cache.delete" -> PyFalse
      [] op = "cache.invalidate_namespace" -> Ok(PyInt(0))
DegradingOps ==
    {"cache.get", "cache.set", "cache.exists", "cache.get_ttl", "cache.delete",
     "cache.invalidate_namespace"}

\* the aggregation asked both sources and its record holds what they answered
CompletedFromSources ==
    /\ ret.ok
    /\ hist.src["linkedin"].called /\ hist.src["clearbit"].called
    /\ InTrace("http.clearbit")
    /\ Payload("linkedin") = MockSearchCompany(call.company_name)
    /\ Lookup(ret.v, <<"linkedin_data">>) = Payload("linkedin")
    /\ Lookup(ret.v, <<"clearbit_data">>) = Payload("clearbit")
    /\ Used("linkedin")
    /\ call.response.status = 200 => (Payload("clearbit") # None /\ Used("clearbit"))

\* C18: while the cache backend is unreachable no cache operation raises: get
\* returns absent, set false, exists false, get_ttl none, delete false and
\* invalidate_namespace 0; an aggregation made meanwhile completes with the
\* data fetched from the sources.
C18_CacheFailureDegrades ==
    (pc = "done" /\ ~redis_up) =>
        /\ call.op \in DegradingOps => ret = Degraded(call.op)
        /\ call.op = "cache.get_or_set" => ret.ok
        /\ call.op = "collect_company_data" => CompletedFromSources

\* an aggregation with caching requested, made while Redis is down, returned
\* the Clearbit answer
C18_Witness ==
    /\ Done("collect_company_data")
    /\ ~redis_up
    /\ call.use_cache
    /\ CompletedFromSources
    /\ Used("clearbit")
    /\ cache = <<>>

\* how often an event was logged
Occurrences(tr, event) == Cardinality({i \in DOMAIN tr : tr[i] = event})
\* the key the coming call names, and what the store may hold under it
NextKey == GenerateKey(call'.namespace, call'.identifier)
EntryExists == redis_up /\ NextKey \in DOMAIN cache
ValueCached == EntryExists /\ JsonLoads(cache[NextKey].data) # None
OthersKept ==
    \A key \in (DOMAIN cache \cup DOMAIN cache') \ {NextKey} :
        key \in DOMAIN cache /\ key \in DOMAIN cache' /\ cache'[key] = cache[key]
Stored(data, ttl) ==
    /\ NextKey \in DOMAIN cache'
    /\ cache'[NextKey] = [data |-> JsonDumps(data),
                          ttl |-> IF Truthy(ttl) THEN ttl.v ELSE CacheTtl]

\* what get_or_set must do in one step when hit says whether the cache answers
GetOrSetStep(hit) ==
    Calls("cache.get_or_set") =>
        IF hit
        THEN /\ ret' = Ok(JsonLoads(cache[NextKey].data))
             /\ Occurrences(trace', "fetch_func") = 0
             /\ cache' = cache
        ELSE /\ Occurrences(trace', "fetch_func") = 1
             /\ OthersKept
             /\ IF call'.fetch.ok
                THEN /\ ret' = Ok(call'.fetch.v)
                     /\ cache' # cache => call'.fetch.v # None
                     /\ (call'.fetch.v # None /\ JsonSerializable(call'.fetch.v) /\ redis_up)
                            => Stored(call'.fetch.v, call'.ttl)
                ELSE /\ ret' = Ok(None)
                     /\ cache' = cache

\* C19 (as claimed): get_or_set returns an unexpired entry without invoking
\* fetch_func; otherwise it invokes fetch_func exactly once, stores the result
\* only if it is non-null and returns it; when fetch_func raises it returns
\* None and leaves the cache unchanged.
C19_EntryReturnedWithoutFetch == [][GetOrSetStep(EntryExists)]_vars

\* C19 (amended): get_or_set returns an unexpired entry that holds a non-null
\* value without invoking fetch_func; otherwise (no entry, an entry holding
\* null, or an unreachable store) it invokes fetch_func exactly once, stores
\* the result only if it is non-null and returns it; when fetch_func raises it
\* returns None and leaves the cache unchanged.
C19_ValueReturnedWithoutFetch == [][GetOrSetStep(ValueCached)]_vars

\* a cached {"a": 1} came back although fetch_func would have raised
C19_Witness ==
    /\ Done("cache.get_or_set")
    /\ redis_up
    /\ ~call.fetch.ok
    /\ ret = Ok(VDict)
    /\ ~InTrace("fetch_func")

----------------------------------------------------------------------------
(* Clearbit adapter *)

\* the answer the coming enrich_company call gets, if it asks
Answer == call'.response
Asked == Occurrences(trace', "http.clearbit") = 1
Status200 == Answer.kind = "status" /\ Answer.status = 200

\* C20: enrich_company returns the provider's payload only for HTTP 200; for
\* 404, 402, 429, any other status, a timeout or a transport error it returns
\* None without raising, and whenever it returns None nothing is written to
\* the cache.
C20_OnlyStatus200YieldsPayload ==
    [][Calls("clearbit.enrich_company") =>
        /\ ret'.ok
        /\ (Asked /\ Status200 /\ Answer.body # NotJson) => ret' = Ok(Answer.body)
        /\ (Asked /\ ~Status200) => ret' = Ok(None)
        /\ ret' = Ok(None) => cache' = cache]_vars

\* a 429 answer with a JSON body, caching requested: None and an empty cache
C20_Witness ==
    /\ Done("clearbit.enrich_company")
    /\ InTrace("http.clearbit")
    /\ call.response = HttpStatus(429, ErrorBody)
    /\ call.use_cache /\ redis_up
    /\ ret = Ok(None)
    /\ cache = <<>>

----------------------------------------------------------------------------
(* Caching in the adapters *)

\* the key under which each adapter caches what it fetched for the call c
AdapterKey(source, c) ==
    CASE source = "linkedin" -> GenerateKey(S_linkedin, LinkedInCompanyKey(c.company_name))
      [] source = "clearbit" -> GenerateKey(S_clearbit, Format(c.domain))
      [] source = "hunter" -> GenerateKey(S_hunter, HunterDomainKey(c.domain))
NetworkEvent ==
    [linkedin |-> "linkedin.goto", clearbit |-> "http.clearbit", hunter |-> "http.hunter"]

\* the adapter of the coming call answered a payload; for the scraped profile,
\* the answer of the scraper data_collector.py wires in
Fetched(source) ==
    /\ hist'.src[source].called
    /\ hist'.src[source].out.ok
    /\ hist'.src[source].out.v # None
    /\ source = "linkedin" => hist'.src[source].out.v = MockSearchCompany(call'.company_name)

CacheFirst(source) ==
    LET key == AdapterKey(source, call')
    IN  IF key \in DOMAIN cache
        THEN hist'.src[source].called =>
                /\ hist'.src[source].out = Ok(JsonLoads(cache[key].data))
                /\ Occurrences(trace', NetworkEvent[source]) = 0
        ELSE Fetched(source) =>
                /\ key \in DOMAIN cache'
                /\ JsonLoads(cache'[key].data) = hist'.src[source].out.v

\* C21: with use_cache true and a reachable store, each of the three adapters
\* answers an unexpired entry of its key without a network operation, and
\* after a miss writes the payload it fetched under its own namespace; this
\* includes the scraper wired into the aggregator.
C21_AdaptersAreCacheFirst ==
    [][(Calls("collect_company_data") /\ call'.use_cache /\ redis_up)
        => \A i \in DOMAIN Sources : CacheFirst(Sources[i])]_vars

\* the pattern already discovered for the coming call's domain, None without one
DiscoveredPattern ==
    LET key == GenerateKey(S_hunter, HunterDomainKey(call'.domain))
    IN  IF redis_up /\ key \in DOMAIN cache /\ Truthy(JsonLoads(cache[key].data))
        THEN Get(JsonLoads(cache[key].data), "pattern")
        ELSE None

\* C22: generate_email sends no request in any state, also when the domain's
\* pattern is not cached, and answers from the name fragments and the pattern
\* already discovered alone.
C22_GenerateEmailIsOffline ==
    [][Calls("hunter.generate_email") =>
        /\ Occurrences(trace', "http.hunter") = 0
        /\ ret' = IF DiscoveredPattern = None THEN Ok(None)
                  ELSE Ok(PyStr(FillPattern(DiscoveredPattern.v, call'.first_name.v,
                                            call'.last_name.v)))]_vars

----------------------------------------------------------------------------
(* Whole profiles *)

\* what marks one sending of each external provider operation
ProviderOperations ==
    {"linkedin.search_company", "linkedin.scrape_company_employees",
     "http.clearbit", "http.hunter"}

\* C23: within one collect_full_profile request that includes contacts, each
\* external provider operation is sent at most once, also when the first
\* attempt fails or use_cache is false.
C23_SingleAttemptPerRequest ==
    (Done("collect_full_profile") /\ call.include_contacts) =>
        \A operation \in ProviderOperations : Occurrences(trace, operation) <= 1

\* C28: a collect_full_profile call with use_cache false performs no cache
\* read and no cache write in any adapter and leaves the cache as it was.
C28_NoCacheUseWhenDisabled ==
    [][(Calls("collect_full_profile") /\ ~call'.use_cache) =>
        /\ Occurrences(trace', "cache.get") = 0
        /\ Occurrences(trace', "cache.set") = 0
        /\ cache' = cache]_vars

----------------------------------------------------------------------------
(* Merge *)

\* the two sides _merge_company_data merges
ScrapedSide == Lookup(call.result, <<"linkedin_data">>)
EnrichedSide == Lookup(call.result, <<"aggregated_data">>)
\* side provides field f, with a value that is not empty or zero, and nothing else
ProvidesOnly(side, f) == side.k = "dict" /\ DOMAIN side.v = {f} /\ Truthy(side.v[f])
Disjoint ==
    \/ ProvidesOnly(ScrapedSide, "industry") /\ ProvidesOnly(EnrichedSide, "employee_count")
    \/ ProvidesOnly(ScrapedSide, "employee_count") /\ ProvidesOnly(EnrichedSide, "industry")
Provided(f) == IF f \in DOMAIN ScrapedSide.v THEN ScrapedSide.v[f] ELSE EnrichedSide.v[f]
BothSet ==
    /\ Lookup(ret.v, <<"industry">>) = Provided("industry")
    /\ Lookup(ret.v, <<"employee_count">>) = Provided("employee_count")
    /\ "sources_used" \in DOMAIN ret.v.v
OtherKeys == DOMAIN ret.v.v \ {"industry", "employee_count", "sources_used"}

----------------------------------------------------------------------------
(* Cache namespaces and keys *)

\* the entry the last call set is still held, and its key
LastSetHeld == call.op = "cache.set" /\ ret = PyTrue /\ StillHeld
LastSetKey == GenerateKey(call.namespace, call.identifier)

\* C25: invalidate_namespace(ns) deletes exactly the entries set under ns,
\* returns how many it deleted and leaves the entries set under any other
\* namespace as they were, also when ns followed by ':' begins another
\* namespace.
C25_InvalidateNamespaceIsExact ==
    [][(Calls("cache.invalidate_namespace") /\ redis_up) =>
        /\ ret' = Ok(PyInt(Cardinality(DOMAIN cache \ DOMAIN cache')))
        /\ LastSetHeld =>
            IF call.namespace = call'.namespace
            THEN LastSetKey \notin DOMAIN cache'
            ELSE /\ LastSetKey \in DOMAIN cache'
                 /\ cache'[LastSetKey] = cache[LastSetKey]]_vars

\* the values get answers for each pair of arguments, in the store as it is
\* and as it will be
Answers == [pair \in CachePairs |-> CacheGet(Start, pair[1], pair[2]).val]
AnswersNext ==
    [pair \in CachePairs |->
        IF redis_up /\ GenerateKey(pair[1], pair[2]) \in DOMAIN cache'
        THEN JsonLoads(cache'[GenerateKey(pair[1], pair[2])].data)
        ELSE None]

\* C30: the key function is injective, also for namespaces and identifiers
\* that contain ':': distinct (namespace, identifier) pairs have distinct
\* keys, and a set under one pair does not change what get answers for
\* another pair.
C30_KeyFunctionIsInjective ==
    [][Calls("cache.set") =>
        \A pair \in CachePairs :
            pair # <<call'.namespace, call'.identifier>> =>
                /\ GenerateKey(pair[1], pair[2])
                        # GenerateKey(call'.namespace, call'.identifier)
                /\ AnswersNext[pair] = Answers[pair]]_vars

----------------------------------------------------------------------------
(* Scraper politeness *)

ScraperOps == {"linkedin.search_company", "linkedin.scrape_company_employees"}
\* where an event was logged last, 0 if nowhere
LastIndex(tr, event) ==
    IF \E i \in DOMAIN tr : tr[i] = event
    THEN CHOOSE i \in DOMAIN tr : tr[i] = event /\ \A j \in DOMAIN tr : tr[j] = event => j <= i
    ELSE 0
\* the last navigation logged in tr has no delay after it
DelayOwed(tr) == LastIndex(tr, "linkedin.goto") > LastIndex(tr, "linkedin.delay")
\* the coming scraper call finds a usable entry under its key
ScraperKey ==
    GenerateKey(S_linkedin,
                IF call'.op = "linkedin.search_company"
                THEN LinkedInCompanyKey(call'.company_name)
                ELSE LinkedInEmployeesKey(call'.company_name, call'.limit))
ScraperHit ==
    /\ call'.use_cache /\ redis_up
    /\ ScraperKey \in DOMAIN cache
    /\ Truthy(JsonLoads(cache[ScraperKey].data))

\* C26: every navigation of the scraper is followed by the politeness delay
\* before its next navigation starts, across successive calls and also when a
\* navigation fails; a cache hit performs neither a navigation nor a delay.
C26_DelayAfterEveryNavigation ==
    [][(pc = "idle" /\ pc' = "done" /\ call'.op \in ScraperOps) =>
        /\ (call.op \in ScraperOps /\ Occurrences(trace', "linkedin.goto") > 0)
                => ~DelayOwed(trace)
        /\ ScraperHit => /\ Occurrences(trace', "linkedin.goto") = 0
                         /\ Occurrences(trace', "linkedin.delay") = 0]_vars

----------------------------------------------------------------------------
(* Identity of the scored record *)

\* C29: the record collect_full_profile scores carries the caller's domain:
\* called with a non-empty domain, the merged record's domain field equals
\* that domain whether or not Clearbit is available.
C29_ScoredRecordCarriesDomain ==
    (Returned("collect_full_profile") /\ Given(call.domain)) =>
        Lookup(ret.v, <<"data", "domain">>) = call.domain

----------------------------------------------------------------------------
(* Concurrent requests *)

RaceKey == GenerateKey(S_clearbit, Format(Domain_abco))
WholePayloads == {r.body : r \in {x \in RaceResponses : x.status = 200}}
\* what request p returned is a whole payload: the one it fetched, or one
\* that some request had cached
ReturnedWhole(p) ==
    /\ ret[p].ok
    /\ ret[p].v \in WholePayloads
    /\ ret[p].v = call[p].data \/ call[p].data = None

\* C27: two requests that miss and fetch the same key race harmlessly: in
\* every interleaving of their get, fetch and set steps a request whose fetch
\* did not fail returns a whole provider payload, its own or a cached one,
\* and once a set has succeeded the entry under the key is the whole payload
\* of the latest successful set, never a mixture and never absent.
C27_RacingRequestsAreHarmless ==
    /\ \A p \in Requests :
        (pc[p] = "done" /\ ~call[p].failed) => ReturnedWhole(p)
    /\ hist.last_set # None =>
        /\ RaceKey \in DOMAIN cache
        /\ JsonLoads(cache[RaceKey].data) = hist.last_set

\* both requests missed, fetched different payloads and set them: each
\* returned its own, and the entry is the one set last
C27_Witness ==
    /\ \A p \in Requests : pc[p] = "done" /\ call[p].missed
    /\ ret[1] = Ok(CbFull) /\ call[1].data = CbFull
    /\ ret[2] = Ok(CbPartial) /\ call[2].data = CbPartial
    /\ hist.last_set = CbFull
    /\ JsonLoads(cache[RaceKey].data) = CbFull

====
